---------------------------- MODULE Spec2Model ----------------------------
(***************************************************************************)
(* Dawg-Path-Navigation: the trip planner of nav.py (static GTFS index,    *)
(* realtime delay cache, direct and one-transfer search, walk enhancement, *)
(* safety overlay) and the ETA estimator of TransitAppBackEnd.py (crowd    *)
(* reports, live feed, schedule fallback).                                 *)
(*                                                                         *)
(* Conventions of the model:                                               *)
(*  - a Python dict is a TLA+ function; Get(d, k, dflt) is d.get(k, dflt); *)
(*  - an Optional value is a sequence: None is <<>>, a value v is <<v>>;  *)
(*  - a coordinate pair (lat, lng) is one integer, the position in metres  *)
(*    along a line, and haversine_m is the absolute difference;            *)
(*  - a safety score (a float rounded to 3 decimals) is an integer number  *)
(*    of thousandths, 0..1000;                                             *)
(*  - "HH:MM" strings are the pair <<HH, MM>>.                             *)
(***************************************************************************)
EXTENDS Integers, Sequences, FiniteSets, TLC

None == <<>>
Some(v) == <<v>>
Val(o) == o[1]

Max(a, b) == IF a >= b THEN a ELSE b
Min(a, b) == IF a <= b THEN a ELSE b
Abs(a) == IF a >= 0 THEN a ELSE -a

EmptyDict == [k \in {} |-> 0]
Get(d, k, dflt) == IF k \in DOMAIN d THEN d[k] ELSE dflt

\* dict.update(n) applied to d
DictUpdate(d, n) ==
  [k \in (DOMAIN d) \cup (DOMAIN n) |-> IF k \in DOMAIN n THEN n[k] ELSE d[k]]

Range(s) == {s[i] : i \in DOMAIN s}

RECURSIVE SumSeq(_)
SumSeq(s) == IF s = <<>> THEN 0 ELSE Head(s) + SumSeq(Tail(s))

Take(s, n) == SubSeq(s, 1, Min(n, Len(s)))

\* list.sort(key=...) is stable.  A list to sort is a sequence of pairs
\* <<key, item>>; SortByKey orders it by key and keeps equal keys in order.
RECURSIVE InsertByKey(_, _)
InsertByKey(s, x) ==
  IF s = <<>> THEN <<x>>
  ELSE IF x[1] < Head(s)[1] THEN <<x>> \o s
  ELSE <<Head(s)>> \o InsertByKey(Tail(s), x)

RECURSIVE SortByKey(_)
SortByKey(s) ==
  IF s = <<>> THEN <<>>
  ELSE InsertByKey(SortByKey(SubSeq(s, 1, Len(s) - 1)), s[Len(s)])

Items(s) == [i \in 1..Len(s) |-> s[i][2]]

RECURSIVE FlattenSeq(_)
FlattenSeq(ss) == IF ss = <<>> THEN <<>> ELSE Head(ss) \o FlattenSeq(Tail(ss))

(***************************************************************************)
(* nav.py: helpers                                                         *)
(***************************************************************************)
\* s2t: seconds since midnight -> "HH:MM" (seconds are dropped, negatives
\* clamp to 00:00)
s2t(s) ==
  LET c == Max(0, s) IN <<c \div 3600, (c % 3600) \div 60>>

haversine_m(a, b) == Abs(a - b)

(***************************************************************************)
(* nav.py: the static GTFS feed (the rows of the four files, in file       *)
(* order) and the indexes load_static builds from it.                      *)
(*                                                                         *)
(*   route R1 (short name "1"):  A -> A2 -> X -> B     trips T1, T2        *)
(*   route R2 (long name "Two"): X -> B                trips U1, U2        *)
(*   route R3 (short name "3"):  C -> X -> C (a loop)  trip  L1            *)
(***************************************************************************)
StopRows ==
  << [stop_id |-> "A",  name |-> "Stop A",  pos |-> 0],
     [stop_id |-> "A2", name |-> "Stop A2", pos |-> 200],
     [stop_id |-> "X",  name |-> "Stop X",  pos |-> 4000],
     [stop_id |-> "B",  name |-> "Stop B",  pos |-> 8000],
     [stop_id |-> "C",  name |-> "Stop C",  pos |-> 4300] >>

RouteRows ==
  << [route_id |-> "R1", short |-> "1", long |-> "One"],
     [route_id |-> "R2", short |-> "",  long |-> "Two"],
     [route_id |-> "R3", short |-> "3", long |-> ""] >>

TripRows ==
  << [trip_id |-> "T1", route_id |-> "R1"],
     [trip_id |-> "U1", route_id |-> "R2"],
     [trip_id |-> "T2", route_id |-> "R1"],
     [trip_id |-> "U2", route_id |-> "R2"],
     [trip_id |-> "L1", route_id |-> "R3"] >>

StRow(t, s, a, d, q) ==
  [trip_id |-> t, stop_id |-> s, arr_sec |-> a, dep_sec |-> d, seq |-> q]

StopTimeRows ==
  << StRow("T1", "A",  3600, 3600, 1), StRow("T1", "A2", 3660, 3660, 2),
     StRow("T1", "X",  4200, 4220, 3), StRow("T1", "B",  5400, 5400, 4),
     StRow("U1", "B",  4800, 4800, 2), StRow("U1", "X",  4250, 4260, 1),
     StRow("T2", "A",  3900, 3900, 1), StRow("T2", "A2", 3960, 3960, 2),
     StRow("T2", "X",  4500, 4520, 3), StRow("T2", "B",  5700, 5700, 4),
     StRow("U2", "X",  4560, 4560, 1), StRow("U2", "B",  5110, 5110, 2),
     StRow("L1", "C",  4300, 4300, 1), StRow("L1", "X",  4380, 4380, 2),
     StRow("L1", "C",  4460, 4460, 3) >>

StopIds  == [i \in 1..Len(StopRows) |-> StopRows[i].stop_id]
RouteIds == [i \in 1..Len(RouteRows) |-> RouteRows[i].route_id]

STOPS == [sid \in Range(StopIds) |->
            LET r == CHOOSE r \in Range(StopRows) : r.stop_id = sid
            IN  [name |-> r.name, pos |-> r.pos]]

ROUTES == [rid \in Range(RouteIds) |->
             LET r == CHOOSE r \in Range(RouteRows) : r.route_id = rid
             IN  [short |-> r.short, long |-> r.long]]

TRIPS == [tid \in {r.trip_id : r \in Range(TripRows)} |->
            (CHOOSE r \in Range(TripRows) : r.trip_id = tid).route_id]

\* TRIPS_BY_ROUTE[route_id]: the route's trips in file order
TRIPS_BY_ROUTE(rid) ==
  LET rows == SelectSeq(TripRows, LAMBDA r : r.route_id = rid)
  IN  [i \in 1..Len(rows) |-> rows[i].trip_id]

\* STOP_TIMES_BY_TRIP[trip_id]: the trip's rows, sorted by stop_sequence
STOP_TIMES_BY_TRIP(tid) ==
  LET rows == SelectSeq(StopTimeRows, LAMBDA r : r.trip_id = tid)
  IN  Items(SortByKey([i \in 1..Len(rows) |-> <<rows[i].seq, rows[i]>>]))

\* ROUTES_BY_STOP[stop_id]: the set of routes with a stop_time at the stop
ROUTES_BY_STOP(sid) ==
  {TRIPS[r.trip_id] : r \in {x \in Range(StopTimeRows) : x.stop_id = sid}}

\* The order in which a `for` over a set of route ids visits them.
RoutesInOrder(S) == SelectSeq(RouteIds, LAMBDA r : r \in S)

\* nav.py: stop_routes.  sorted(list(ROUTES_BY_STOP.get(stop_id, set()))) is
\* the file order of the routes, whose ids are in increasing order.
stop_routes(stop_id) ==
  IF stop_id \notin DOMAIN STOPS
  THEN [status |-> 404, detail |-> "stop not found", routes |-> <<>>]
  ELSE [status |-> 200, detail |-> "",
        routes |-> LET rids == RoutesInOrder(ROUTES_BY_STOP(stop_id))
                   IN  [i \in 1..Len(rids) |->
                          [route_id |-> rids[i], short_name |-> ROUTES[rids[i]].short,
                           long_name |-> ROUTES[rids[i]].long]]]

\* next((r for r in seqs if r["stop_id"] == stop), None)
FirstRowAt(seqs, stop) ==
  LET rows == SelectSeq(seqs, LAMBDA r : r.stop_id = stop)
  IN  IF rows = <<>> THEN None ELSE Some(rows[1])

(***************************************************************************)
(* nav.py: find_direct_trips.  TD and TSD are the contents of TRIP_DELAY   *)
(* and TRIP_STOP_DELAY the call reads.                                     *)
(***************************************************************************)
BoardingSlack == 90

\* the delay of the maps whether or not realtime is enabled
DelayAlways(TD, TSD, trip_id, stop, rt_delays) ==
  Get(TSD, <<trip_id, stop>>, Get(TD, trip_id, 0))

\* lines 292-293
DelayAt(TD, TSD, trip_id, stop, rt_delays) ==
  IF rt_delays THEN Get(TSD, <<trip_id, stop>>, Get(TD, trip_id, 0)) ELSE 0

Boardable(dep, depart_after_sec) == dep >= depart_after_sec - BoardingSlack

\* a pair of rows taken in whichever order the trip visits them
AnyOrder(o_row, d_row) == TRUE

\* line 289: not (o_row["seq"] >= d_row["seq"])
InOrder(o_row, d_row) == ~(o_row.seq >= d_row.seq)

\* the candidate of one trip, or <<>> when the trip is skipped
TripCandidate(route_id, trip_id, o_stop, d_stop, depart_after_sec, rt_delays, TD, TSD) ==
  LET seqs  == STOP_TIMES_BY_TRIP(trip_id)
      o_opt == FirstRowAt(seqs, o_stop)
      d_opt == FirstRowAt(seqs, d_stop)
      o_row == Val(o_opt)
      d_row == Val(d_opt)
  IN  IF seqs = <<>> \/ o_opt = None \/ d_opt = None THEN <<>>
      ELSE IF ~InOrder(o_row, d_row) THEN <<>>
      ELSE LET dep == o_row.dep_sec + DelayAt(TD, TSD, trip_id, o_stop, rt_delays)
               arr == d_row.arr_sec + DelayAt(TD, TSD, trip_id, d_stop, rt_delays)
           IN  IF Boardable(dep, depart_after_sec)
               THEN << [trip_id |-> trip_id, route_id |-> route_id,
                        dep |-> dep, arr |-> arr,
                        o_seq |-> o_row.seq, d_seq |-> d_row.seq] >>
               ELSE <<>>

find_direct_trips(o_stop, d_stop, depart_after_sec, rt_delays, TD, TSD) ==
  LET common_routes == RoutesInOrder(ROUTES_BY_STOP(o_stop) \cap ROUTES_BY_STOP(d_stop))
      perRoute(rid) ==
        LET ts == TRIPS_BY_ROUTE(rid)
        IN  FlattenSeq([i \in 1..Len(ts) |->
              TripCandidate(rid, ts[i], o_stop, d_stop, depart_after_sec, rt_delays, TD, TSD)])
      candidates == FlattenSeq([i \in 1..Len(common_routes) |-> perRoute(common_routes[i])])
  IN  Items(SortByKey([i \in 1..Len(candidates) |-> <<candidates[i].arr, candidates[i]>>]))

(***************************************************************************)
(* nav.py: legs and itineraries.  Beside the fields of the Leg model, a    *)
(* TRANSIT leg of the model keeps the trip dict it was built from (dep,    *)
(* arr in seconds, o_seq, d_seq, the two stop ids), which the "HH:MM"      *)
(* strings dep_time and arr_time do not determine.                         *)
(***************************************************************************)
NearestLimit == 10
StopFanout == 6
WalkSpeedKmh == 5

nearest_stops(pos, limit, max_m) ==
  LET rows == FlattenSeq([i \in 1..Len(StopIds) |->
                LET d == haversine_m(pos, STOPS[StopIds[i]].pos)
                IN  IF d <= max_m THEN << <<d, StopIds[i]>> >> ELSE <<>>])
      sorted == SortByKey(rows)
  IN  Take([i \in 1..Len(sorted) |-> [sid |-> sorted[i][2], d |-> sorted[i][1]]], limit)

\* int(d_m / (speed_kmh * 1000/3600))
WalkSeconds(d_m) == (d_m * 3600) \div (WalkSpeedKmh * 1000)

NoTrip == [trip_id |-> "", dep |-> 0, arr |-> 0, o_seq |-> 0, d_seq |-> 0,
           from_stop |-> "", to_stop |-> ""]

build_walk_leg(name_a, pos_a, name_b, pos_b) ==
  [mode |-> "WALK", from_name |-> name_a, to_name |-> name_b,
   from_pos |-> pos_a, to_pos |-> pos_b,
   route |-> None, dep_time |-> None, arr_time |-> None,
   duration_sec |-> Max(0, WalkSeconds(haversine_m(pos_a, pos_b))),
   geometry |-> None, steps |-> None,
   safety_zones_score |-> None, safety_score |-> None, safety_matches |-> None,
   alt_options |-> None, walk_summary |-> None,
   trip |-> NoTrip]

RouteName(route_id) ==
  LET rs == ROUTES[route_id]
  IN  IF rs.short # "" THEN rs.short ELSE IF rs.long # "" THEN rs.long ELSE route_id

build_transit_leg(o_stop, d_stop, trip) ==
  LET rname == RouteName(trip.route_id)
  IN  [mode |-> "TRANSIT",
       from_name |-> <<STOPS[o_stop].name, rname>>,
       to_name |-> <<STOPS[d_stop].name, rname>>,
       from_pos |-> STOPS[o_stop].pos, to_pos |-> STOPS[d_stop].pos,
       route |-> Some(rname),
       dep_time |-> Some(s2t(trip.dep)), arr_time |-> Some(s2t(trip.arr)),
       duration_sec |-> Max(0, trip.arr - trip.dep),
       geometry |-> None, steps |-> None,
       safety_zones_score |-> None, safety_score |-> None, safety_matches |-> None,
       alt_options |-> None, walk_summary |-> None,
       trip |-> [trip_id |-> trip.trip_id, dep |-> trip.dep, arr |-> trip.arr,
                 o_seq |-> trip.o_seq, d_seq |-> trip.d_seq,
                 from_stop |-> o_stop, to_stop |-> d_stop]]

\* an itinerary that does not record its transfers
Uncounted(duration_sec, depart_time, arrive_time, transfers, legs, notes) ==
  [duration_sec |-> duration_sec, depart_time |-> depart_time,
   arrive_time |-> arrive_time, transfers |-> 0, legs |-> legs,
   notes |-> notes]

Itinerary(duration_sec, depart_time, arrive_time, transfers, legs, notes) ==
  [duration_sec |-> duration_sec, depart_time |-> depart_time,
   arrive_time |-> arrive_time, transfers |-> transfers, legs |-> legs,
   notes |-> notes]

\* out.sort(key=lambda i: i.duration_sec)
SortByDuration(out) ==
  Items(SortByKey([i \in 1..Len(out) |-> <<out[i].duration_sec, out[i]>>]))

\* uniq, seen = [], set(): of a list of pairs <<signature, itinerary>>, keep
\* the first itinerary of every signature
DedupBySig(pairs) ==
  LET first(i) == \A j \in 1..(i - 1) : pairs[j][1] # pairs[i][1]
      idx == SelectSeq([i \in 1..Len(pairs) |-> i], first)
  IN  [k \in 1..Len(idx) |-> pairs[idx[k]][2]]

MaxReturned == 5
DirectTripsPerPair == 2
TransferBufferSec == 120
MaxInterchanges == 100

(***************************************************************************)
(* nav.py: plan_direct                                                     *)
(***************************************************************************)
DirectItinerary(from_pos, to_pos, depart_after_sec, o_stop, d_stop, t) ==
  LET walk1 == build_walk_leg(<<"Origin">>, from_pos, <<STOPS[o_stop].name>>, STOPS[o_stop].pos)
      ride  == build_transit_leg(o_stop, d_stop, t)
      walk2 == build_walk_leg(<<STOPS[d_stop].name>>, STOPS[d_stop].pos, <<"Destination">>, to_pos)
  IN  Itinerary(walk1.duration_sec + (t.arr - t.dep) + walk2.duration_sec,
                s2t(Max(depart_after_sec, t.dep - walk1.duration_sec)),
                s2t(t.arr + walk2.duration_sec),
                0, <<walk1, ride, walk2>>, <<"Direct route">>)

DirectSig(it) == <<it.legs[2].route, it.depart_time, it.arrive_time>>

\* every itinerary built, repeats included
KeepAll(out) == out

\* lines 367-371
DedupDirect(out) == DedupBySig([i \in 1..Len(out) |-> <<DirectSig(out[i]), out[i]>>])

plan_direct(from_pos, to_pos, depart_after_sec, max_walk, rt_delays, TD, TSD) ==
  LET near_o == Take(nearest_stops(from_pos, NearestLimit, max_walk), StopFanout)
      near_d == Take(nearest_stops(to_pos, NearestLimit, max_walk), StopFanout)
      forPair(o_stop, d_stop) ==
        LET trips == Take(find_direct_trips(o_stop, d_stop, depart_after_sec, rt_delays, TD, TSD),
                          DirectTripsPerPair)
        IN  [k \in 1..Len(trips) |->
               DirectItinerary(from_pos, to_pos, depart_after_sec, o_stop, d_stop, trips[k])]
      forOrigin(o_stop) ==
        FlattenSeq([j \in 1..Len(near_d) |-> forPair(o_stop, near_d[j].sid)])
      out == FlattenSeq([i \in 1..Len(near_o) |-> forOrigin(near_o[i].sid)])
  IN  IF near_o = <<>> \/ near_d = <<>> THEN <<>>
      ELSE Take(DedupDirect(SortByDuration(out)), MaxReturned)

(***************************************************************************)
(* nav.py: plan_one_transfer                                               *)
(***************************************************************************)
\* sorted(STOPS.keys(), key=lambda s: -len(ROUTES_BY_STOP.get(s, [])))[:100]
Interchanges ==
  Take(Items(SortByKey([i \in 1..Len(StopIds) |->
          <<0 - Cardinality(ROUTES_BY_STOP(StopIds[i])), StopIds[i]>>])),
       MaxInterchanges)

TransferReady(t1) == t1.arr + TransferBufferSec

TransferItinerary(from_pos, to_pos, depart_after_sec, o_stop, x_stop, d_stop, t1, t2) ==
  LET walk1 == build_walk_leg(<<"Origin">>, from_pos, <<STOPS[o_stop].name>>, STOPS[o_stop].pos)
      ride1 == build_transit_leg(o_stop, x_stop, t1)
      ride2 == build_transit_leg(x_stop, d_stop, t2)
      walk2 == build_walk_leg(<<STOPS[d_stop].name>>, STOPS[d_stop].pos, <<"Destination">>, to_pos)
  IN  Itinerary(walk1.duration_sec + (t1.arr - t1.dep) + (t2.arr - t2.dep) + walk2.duration_sec,
                s2t(Max(depart_after_sec, t1.dep - walk1.duration_sec)),
                s2t(t2.arr + walk2.duration_sec),
                1, <<walk1, ride1, ride2, walk2>>,
                <<"Transfer at", STOPS[x_stop].name>>)

TransferSig(it) ==
  <<it.transfers, it.legs[2].route,
    IF it.transfers = 1 THEN it.legs[Len(it.legs) - 1].route ELSE <<"">>,
    it.depart_time>>

\* lines 424-429
DedupTransfer(out) == DedupBySig([i \in 1..Len(out) |-> <<TransferSig(out[i]), out[i]>>])

plan_one_transfer(from_pos, to_pos, depart_after_sec, max_walk, rt_delays, TD, TSD) ==
  LET near_o == nearest_stops(from_pos, NearestLimit, max_walk)
      near_d == nearest_stops(to_pos, NearestLimit, max_walk)
      o_stops == Take(near_o, StopFanout)
      d_stops == Take(near_d, StopFanout)
      second(o_stop, x_stop, t1, d_stop) ==
        LET t2_list == Take(find_direct_trips(x_stop, d_stop, TransferReady(t1), rt_delays, TD, TSD), 1)
        IN  IF t2_list = <<>> THEN <<>>
            ELSE << TransferItinerary(from_pos, to_pos, depart_after_sec,
                                      o_stop, x_stop, d_stop, t1, t2_list[1]) >>
      first(o_stop, x_stop) ==
        LET t1_list == Take(find_direct_trips(o_stop, x_stop, depart_after_sec, rt_delays, TD, TSD),
                            DirectTripsPerPair)
        IN  IF o_stop = x_stop THEN <<>>
            ELSE FlattenSeq([k \in 1..Len(t1_list) |->
                   FlattenSeq([j \in 1..Len(d_stops) |->
                     second(o_stop, x_stop, t1_list[k], d_stops[j].sid)])])
      forOrigin(o_stop) ==
        FlattenSeq([x \in 1..Len(Interchanges) |-> first(o_stop, Interchanges[x])])
      out == FlattenSeq([i \in 1..Len(o_stops) |-> forOrigin(o_stops[i].sid)])
  IN  IF near_o = <<>> \/ near_d = <<>> THEN <<>>
      ELSE Take(DedupTransfer(SortByDuration(out)), MaxReturned)

(***************************************************************************)
(* nav.py: the TripUpdates feed and what fetch_trip_updates derives from   *)
(* it.  A feed is what the URL answers: "http_error" (raise_for_status or  *)
(* the timeout raises), "garbled" (ParseFromString raises) or the name of  *)
(* a FeedMessage.  An entity is [trip_id, stus]; a stop_time_update is     *)
(* [stop_id, arr, dep] with arr and dep the optional delay fields.         *)
(***************************************************************************)
Stu(sid, a, d) == [stop_id |-> sid, arr |-> a, dep |-> d]

FeedMessages ==
  [ F1 |-> << [trip_id |-> "T1", stus |-> << Stu("X", Some(90), None) >>] >>,
    F2 |-> << [trip_id |-> "",   stus |-> << Stu("A", Some(500), None) >>],
              [trip_id |-> "U1", stus |-> << Stu("", None, Some(60)),
                                             Stu("B", Some(0 - 30), None) >>],
              [trip_id |-> "T2", stus |-> << Stu("A", None, None) >>] >> ]

FeedFailures == {"http_error", "garbled"}
FeedStates == FeedFailures \cup DOMAIN FeedMessages

\* d of lines 146-148: the arrival delay, else the departure delay, else None
StuDelay(su) == IF su.arr # None THEN su.arr ELSE su.dep

\* tsd after the stop_time_updates su[1..n] of trip tid, starting from tsd
RECURSIVE StopDelaysOf(_, _, _)
StopDelaysOf(tid, stus, tsd) ==
  IF stus = <<>> THEN tsd
  ELSE LET su == Head(stus)
           d  == StuDelay(su)
       IN  StopDelaysOf(tid, Tail(stus),
             IF su.stop_id # "" /\ d # None
             THEN DictUpdate(tsd, [k \in {<<tid, su.stop_id>>} |-> Val(d)])
             ELSE tsd)

\* d0 of lines 151-154: the first delay field found, else 0
TripDelayOf(stus) ==
  LET withDelay == SelectSeq(stus, LAMBDA su : StuDelay(su) # None)
  IN  IF withDelay = <<>> THEN 0 ELSE Val(StuDelay(withDelay[1]))

\* td, tsd after the entities of the feed (lines 138-155)
RECURSIVE ParseEntities(_, _)
ParseEntities(ents, acc) ==
  IF ents = <<>> THEN acc
  ELSE LET ent == Head(ents)
       IN  ParseEntities(Tail(ents),
             IF ent.trip_id = "" THEN acc
             ELSE [td  |-> DictUpdate(acc.td, [k \in {ent.trip_id} |-> TripDelayOf(ent.stus)]),
                   tsd |-> StopDelaysOf(ent.trip_id, ent.stus, acc.tsd)])

ParseFeed(f) == ParseEntities(FeedMessages[f], [td |-> EmptyDict, tsd |-> EmptyDict])

(***************************************************************************)
(* nav.py: the safety overlay.  Danger is 1..10; a safety score is in      *)
(* thousandths.  Road names are the strings the walking steps carry;       *)
(* NormName is (name or "").strip().lower() on them.                       *)
(***************************************************************************)
\* round(n / d, 3) of a non-negative quotient, n and d in the same unit
\* and the result in thousandths of it
RoundDiv(n, d) == (2 * n + d) \div (2 * d)

RoadNames == {"Stevens Way NE", " Dark Alley", "Dark Alley", "Back Alley", "Alley", ""}

NormName ==
  [ n \in RoadNames \cup {"stevens way ne", "dark alley", "back alley", "alley"} |->
      CASE n = "Stevens Way NE"           -> "stevens way ne"
        [] n \in {" Dark Alley", "Dark Alley"} -> "dark alley"
        [] n = "Back Alley"               -> "back alley"
        [] n = "Alley"                    -> "alley"
        [] OTHER                          -> n ]

\* _infer_type_from_name, on the names of the model: "alley" in n comes
\* first, then trail/path/walk, then "way"
_infer_type_from_name(name) ==
  CASE NormName[name] \in {"dark alley", "back alley", "alley"} -> Some("alley")
    [] NormName[name] = "stevens way ne" -> Some("arterial")
    [] OTHER -> None

DefaultDanger == 5
DangerDefaults == [roads |-> EmptyDict, types |-> EmptyDict, default |-> DefaultDanger]

\* The files DANGER_MAP_PATH and SAFETY_ZONES_PATH can hold: "missing",
\* "corrupt" (text that json.loads or the normalisation rejects), or
\* the name of a JSON document.
DangerFiles ==
  [ D1 |-> [roads |-> [k \in {"Stevens Way NE", " Dark Alley"} |->
                          IF k = "Stevens Way NE" THEN 2 ELSE 10],
            types |-> [k \in {"Alley"} |-> 9],
            default |-> 7] ]

ZoneFiles ==
  [ Z1 |-> << [type |-> "circle",  pos |-> 0,    radius_m |-> 150, score |-> 800,  label |-> "lit plaza"],
              [type |-> "polygon", pos |-> 100,  radius_m |-> 900, score |-> 100,  label |-> "ignored"],
              [type |-> "circle",  pos |-> 100,  radius_m |-> 50,  score |-> 600,  label |-> ""],
              [type |-> "circle",  pos |-> 8100, radius_m |-> 120, score |-> 1200, label |-> "station"] >> ]

\* _load_danger_map: the new value of DANGER_MAP, given the old one
_load_danger_map(old, file) ==
  IF file = "missing" THEN old
  ELSE IF file = "corrupt" THEN DangerDefaults
  ELSE LET data == DangerFiles[file]
       IN  [roads   |-> [k \in {NormName[n] : n \in DOMAIN data.roads} |->
                           data.roads[CHOOSE n \in DOMAIN data.roads : NormName[n] = k]],
            types   |-> [k \in {NormName[n] : n \in DOMAIN data.types} |->
                           data.types[CHOOSE n \in DOMAIN data.types : NormName[n] = k]],
            default |-> data.default]

\* _load_safety_zones: the new value of SAFETY_ZONES["zones"]
_load_safety_zones(file) ==
  IF file \in {"missing", "corrupt"} THEN <<>>
  ELSE LET circles == SelectSeq(ZoneFiles[file], LAMBDA z : z.type = "circle")
       IN  [i \in 1..Len(circles) |->
              [pos |-> circles[i].pos, radius_m |-> circles[i].radius_m,
               score |-> Max(0, Min(1000, circles[i].score)),
               label |-> circles[i].label]]

\* _danger_to_safety: round(1.0 - (danger - 1) / 9.0, 3)
_danger_to_safety(danger) ==
  LET d == Max(1, Min(10, danger)) IN RoundDiv(1000 * (10 - d), 9)

Evidence(src, name, danger, score, dist) ==
  [source |-> src, name |-> name, danger |-> danger, score |-> score, distance_m |-> dist]

StepDanger(DM, st) ==
  LET name == st.name
      key  == NormName[name]
      typ  == _infer_type_from_name(name)
  IN  IF key \in DOMAIN DM.roads THEN DM.roads[key]
      ELSE IF typ # None /\ Val(typ) \in DOMAIN DM.types THEN DM.types[Val(typ)]
      ELSE DM.default

\* annotate_leg_from_danger_map: the leg with safety_score and safety_matches set
annotate_leg_from_danger_map(leg, DM) ==
  LET steps == IF leg.steps = None THEN <<>> ELSE Val(leg.steps) IN
  IF steps = <<>>
  THEN LET sc == _danger_to_safety(DM.default)
       IN  [leg EXCEPT !.safety_score = Some(sc),
                       !.safety_matches = Some(<< Evidence("default", "", DM.default, sc, 0) >>)]
  ELSE LET matches == [i \in 1..Len(steps) |->
                         Evidence("road", steps[i].name, StepDanger(DM, steps[i]),
                                  _danger_to_safety(StepDanger(DM, steps[i])),
                                  steps[i].distance_m)]
           total_dist == SumSeq([i \in 1..Len(matches) |-> matches[i].distance_m])
           weighted   == SumSeq([i \in 1..Len(matches) |-> matches[i].score * matches[i].distance_m])
           plain      == SumSeq([i \in 1..Len(matches) |-> matches[i].score])
       IN  [leg EXCEPT !.safety_score = Some(IF total_dist <= 0
                                              THEN RoundDiv(plain, Len(matches))
                                              ELSE RoundDiv(weighted, total_dist)),
                       !.safety_matches = Some(matches)]

_point_in_circle(pos, center, radius_m) == haversine_m(pos, center) <= radius_m

\* _zone_score_at: the highest score of the zones covering the point, or None
_zone_score_at(pos, ZN) ==
  LET cover == {ZN[i].score : i \in {j \in 1..Len(ZN) : _point_in_circle(pos, ZN[j].pos, ZN[j].radius_m)}}
  IN  IF cover = {} THEN None ELSE Some(CHOOSE m \in cover : \A o \in cover : o <= m)

SampleStride == 4

\* annotate_leg_from_zones: the leg with safety_zones_score set when a sample
\* point lies in a zone, and the zone evidence appended to safety_matches
annotate_leg_from_zones(leg, ZN) ==
  LET geom == IF leg.geometry = None THEN <<>> ELSE Val(leg.geometry)
      idx  == SelectSeq([i \in 1..Len(geom) |-> i], LAMBDA i : (i - 1) % SampleStride = 0)
      samples == IF geom # <<>>
                 THEN [k \in 1..Len(idx) |-> geom[idx[k]]]
                 ELSE << leg.from_pos, (leg.from_pos + leg.to_pos) \div 2, leg.to_pos >>
      hits == SelectSeq(samples, LAMBDA pt : _zone_score_at(pt, ZN) # None)
      values == [i \in 1..Len(hits) |-> Val(_zone_score_at(hits[i], ZN))]
      evid == [i \in 1..Len(hits) |-> Evidence("zone", "", 0, values[i], hits[i])]
  IN  IF values = <<>> THEN leg
      ELSE [leg EXCEPT !.safety_zones_score = Some(RoundDiv(SumSeq(values), Len(values))),
                       !.safety_matches =
                          Some((IF leg.safety_matches = None THEN <<>> ELSE Val(leg.safety_matches)) \o evid)]

\* parts = [x for x in [safety_score, safety_zones_score] if x is not None];
\* safety_score = round(sum(parts) / len(parts), 3)
CombineScores(leg) ==
  LET parts == leg.safety_score \o leg.safety_zones_score
  IN  IF parts = <<>> THEN leg
      ELSE [leg EXCEPT !.safety_score = Some(RoundDiv(SumSeq(parts), Len(parts)))]

Annotate(leg, DM, ZN) ==
  CombineScores(annotate_leg_from_zones(annotate_leg_from_danger_map(leg, DM), ZN))

\* int(duration * (1.0 + (1.0 - safety_score) * k)), k = 0.3 (prefer), 0.6 (strict)
BiasTenths(safety) == IF safety = "prefer" THEN 3 ELSE 6
Biased(duration, score, safety) ==
  (duration * (10000 + (1000 - score) * BiasTenths(safety))) \div 10000

BiasedDuration(leg, safety) ==
  IF safety \in {"prefer", "strict"} /\ leg.safety_score # None
  THEN Biased(leg.duration_sec, Val(leg.safety_score), safety)
  ELSE leg.duration_sec

(***************************************************************************)
(* nav.py: fetch_walking_routes_mapbox.  The provider is "down" (no token, *)
(* HTTP error, timeout or an empty route list: the function returns None)  *)
(* or "up", and then answers a primary route along Stevens Way NE and an   *)
(* alternative through the alleys that carries no duration.                *)
(***************************************************************************)
ProviderRoutes(from_pos, to_pos) ==
  LET d   == haversine_m(from_pos, to_pos)
      mid == (from_pos + to_pos) \div 2
  IN  << [geometry |-> <<from_pos, from_pos, mid, mid, to_pos>>,
          steps |-> << [name |-> "Stevens Way NE", distance_m |-> d + 40] >>,
          duration_sec |-> WalkSeconds(d + 40) + 15,
          summary |-> "Stevens Way NE"],
         [geometry |-> <<from_pos, to_pos>>,
          steps |-> << [name |-> "Dark Alley", distance_m |-> d \div 2],
                       [name |-> "Back Alley", distance_m |-> d \div 4],
                       [name |-> "", distance_m |-> d - (d \div 2) - (d \div 4)] >>,
          duration_sec |-> 0,
          summary |-> ""] >>

\* a provider that answers whatever its state
AlwaysUp(provider, from_pos, to_pos, max_alts) ==
  Some(Take(ProviderRoutes(from_pos, to_pos), max_alts + 1))

fetch_walking_routes_mapbox(provider, from_pos, to_pos, max_alts) ==
  IF provider = "down" THEN None
  ELSE LET routes == ProviderRoutes(from_pos, to_pos)
       IN  IF routes = <<>> THEN None ELSE Some(Take(routes, max_alts + 1))

\* the temporary WALK leg that scores one provider route (lines 785-803 and
\* 866-890), with its biased duration
Scored(tmp, safety) == [leg |-> tmp, biased |-> BiasedDuration(tmp, safety)]

Candidate(leg, rt, fallback_duration, safety, DM, ZN) ==
  Scored(Annotate([leg EXCEPT
            !.duration_sec = IF rt.duration_sec # 0 THEN rt.duration_sec ELSE fallback_duration,
            !.geometry = Some(rt.geometry),
            !.steps = Some(rt.steps),
            !.safety_zones_score = None, !.safety_score = None,
            !.safety_matches = None, !.alt_options = None,
            !.walk_summary = IF rt.summary # "" THEN Some(rt.summary) ELSE None], DM, ZN),
         safety)

\* min(candidates, key=lambda c: c["biased"]): the first of the smallest
BestIndex(cands) ==
  CHOOSE i \in 1..Len(cands) :
    /\ \A j \in 1..Len(cands) : cands[i].biased <= cands[j].biased
    /\ \A j \in 1..(i - 1) : cands[j].biased > cands[i].biased

AltOption(c) ==
  [duration_sec |-> c.leg.duration_sec, safety_score |-> c.leg.safety_score,
   safety_zones_score |-> c.leg.safety_zones_score, biased_duration_sec |-> c.biased,
   summary |-> c.leg.walk_summary]

\* lines 902-927: the best candidate replaces the leg's fields, the others
\* become its alt_options
ApplyBest(leg, cands, walk_alternatives) ==
  LET b      == BestIndex(cands)
      others == SelectSeq([i \in 1..Len(cands) |-> i], LAMBDA i : i # b)
      best   == cands[b].leg
  IN  [leg EXCEPT
         !.geometry = best.geometry, !.steps = best.steps,
         !.duration_sec = best.duration_sec,
         !.safety_score = best.safety_score,
         !.safety_zones_score = best.safety_zones_score,
         !.safety_matches = best.safety_matches,
         !.walk_summary = best.walk_summary,
         !.alt_options =
            IF walk_alternatives > 0 /\ others # <<>>
            THEN Some([k \in 1..Min(Len(others), walk_alternatives) |->
                         AltOption(cands[others[k]])])
            ELSE None]

\* lines 848-930, for one WALK leg
EnhanceLeg(leg, q, DM, ZN) ==
  LET routes == fetch_walking_routes_mapbox(q.provider, leg.from_pos, leg.to_pos,
                                            IF q.walk_alternatives > 0 THEN q.walk_alternatives ELSE 0)
  IN  IF leg.mode # "WALK" \/ routes = None THEN leg
      ELSE ApplyBest(leg,
                     [i \in 1..Len(Val(routes)) |->
                        Candidate(leg, Val(routes)[i], leg.duration_sec, q.safety, DM, ZN)],
                     q.walk_alternatives)

\* lines 933-952, for one WALK leg
WithBias(leg, safety) == [leg EXCEPT !.duration_sec = BiasedDuration(leg, safety)]

AnnotateAndBias(leg, q, DM, ZN) ==
  IF leg.mode # "WALK" THEN leg
  ELSE WithBias(IF q.enhance_walk /\ leg.safety_matches # None /\ leg.safety_matches # Some(<<>>)
                THEN leg
                ELSE Annotate(leg, DM, ZN),
                q.safety)

\* if enhance_walk: for it in itineraries: for leg in it.legs (lines 848-850)
EnhanceLegs(its, q, DM, ZN) ==
  IF q.enhance_walk
  THEN [i \in 1..Len(its) |->
          [its[i] EXCEPT !.legs = [k \in 1..Len(its[i].legs) |->
                                     EnhanceLeg(its[i].legs[k], q, DM, ZN)]]]
  ELSE its

\* for it in itineraries: for leg in it.legs (lines 933-934)
AnnotateLegs(its, q, DM, ZN) ==
  [i \in 1..Len(its) |->
     [its[i] EXCEPT !.legs = [k \in 1..Len(its[i].legs) |->
                                AnnotateAndBias(its[i].legs[k], q, DM, ZN)]]]

(***************************************************************************)
(* nav.py: plan.  A query q is the record of the request's parameters,     *)
(* with the wall clock (q.now, seconds since local midnight) and the state *)
(* of the walk directions provider (q.provider) the request meets.         *)
(***************************************************************************)
SparseDirect == 3
StrictDefaultReject == 400

\* now_local_sec() if depart_now or not depart_time_s else int(depart_time_s)
DepartAfter(q) ==
  IF q.depart_now \/ q.depart_time_s = None \/ q.depart_time_s = Some(0)
  THEN q.now ELSE Val(q.depart_time_s)

\* the threshold as the caller gave it
AsGiven(q) == q.reject_walk_below

\* lines 756-757
RejectBelow(q) ==
  IF q.safety = "strict" /\ q.reject_walk_below = None
  THEN Some(StrictDefaultReject) ELSE q.reject_walk_below

\* the one-transfer search run for every query
AlwaysTransfers(direct, q, rt_delays, TD, TSD) ==
  direct \o plan_one_transfer(q.from_pos, q.to_pos, DepartAfter(q), q.max_walk_m,
                              rt_delays, TD, TSD)

\* lines 759-768: the direct search, then the one-transfer search when allowed
\* and the direct search is sparse
WithTransfers(direct, q, rt_delays, TD, TSD) ==
  IF q.max_transfers >= 1 /\ Len(direct) < SparseDirect
  THEN direct \o plan_one_transfer(q.from_pos, q.to_pos, DepartAfter(q), q.max_walk_m,
                                   rt_delays, TD, TSD)
  ELSE direct

PlanSearch(q, url, TD, TSD) ==
  WithTransfers(plan_direct(q.from_pos, q.to_pos, DepartAfter(q), q.max_walk_m,
                            q.use_realtime /\ url, TD, TSD),
                q, q.use_realtime /\ url, TD, TSD)

\* The detail of a 404 is its text and, where the text names
\* threshold={reject_walk_below}, that threshold.
Ok(itineraries) == [status |-> 200, itineraries |-> itineraries, detail |-> <<>>]
NotFound(detail) == [status |-> 404, itineraries |-> <<>>, detail |-> detail]

\* lines 770-845: no transit itinerary was found
\* lines 782-820: the candidates the walk-only leg is chosen from
WalkCandidates(plain, routes, dist_m, q, DM, ZN) ==
  IF routes # None
  THEN [i \in 1..Len(Val(routes)) |->
          Candidate(plain, Val(routes)[i], Max(1, WalkSeconds(dist_m)), q.safety, DM, ZN)]
  ELSE << Scored(Annotate(plain, DM, ZN), q.safety) >>

BestLeg(cands) == cands[BestIndex(cands)].leg

\* lines 824-843: the walk-only itinerary, or its rejection
WalkOnlyAnswer(walk_leg, q) ==
  IF RejectBelow(q) # None /\ walk_leg.safety_score # None
     /\ Val(walk_leg.safety_score) < Val(RejectBelow(q))
  THEN NotFound(<<"Walk-only option rejected by safety filter", Val(RejectBelow(q))>>)
  ELSE Ok(<< Itinerary(walk_leg.duration_sec, s2t(DepartAfter(q)),
                       s2t(DepartAfter(q) + walk_leg.duration_sec),
                       0, <<walk_leg>>, <<"Walk-only fallback">>) >>)

WalkOnly(q, DM, ZN) ==
  IF q.allow_walk_only /\ haversine_m(q.from_pos, q.to_pos) <= q.walk_only_max_m
  THEN WalkOnlyAnswer(
         BestLeg(WalkCandidates(
           build_walk_leg(<<"Origin">>, q.from_pos, <<"Destination">>, q.to_pos),
           fetch_walking_routes_mapbox(q.provider, q.from_pos, q.to_pos,
             IF q.enhance_walk /\ q.walk_alternatives > 0 THEN q.walk_alternatives ELSE 0),
           haversine_m(q.from_pos, q.to_pos), q, DM, ZN)),
         q)
  ELSE NotFound(<<"No itinerary found within walking radius / schedule window.">>)

WalkScores(it) ==
  LET ws == SelectSeq(it.legs, LAMBDA l : l.mode = "WALK" /\ l.safety_score # None)
  IN  [k \in 1..Len(ws) |-> Val(ws[k].safety_score)]

MinOf(vals) == CHOOSE m \in Range(vals) : \A o \in Range(vals) : m <= o

\* lines 955-963
Survives(it, reject) ==
  reject = None \/ WalkScores(it) = <<>> \/ MinOf(WalkScores(it)) >= Val(reject)

\* a plan that would keep the totals the searches computed
KeepTotal(it) == it

\* line 972
Retotal(it) ==
  [it EXCEPT !.duration_sec = SumSeq([k \in 1..Len(it.legs) |-> it.legs[k].duration_sec])]

\* avg_walk_safety, in units of 1/2000 (an itinerary has one or two WALK legs)
AvgWalkSafety2(it) ==
  LET vals == WalkScores(it)
  IN  IF vals = <<>> THEN 1000 ELSE (2 * SumSeq(vals)) \div Len(vals)

\* itineraries.sort(key=lambda it: (it.duration_sec, -avg_walk_safety(it)))
SortBySafety(its, safety) ==
  IF safety \in {"prefer", "strict"}
  THEN Items(SortByKey([i \in 1..Len(its) |->
               <<its[i].duration_sec * 4000 + (2000 - AvgWalkSafety2(its[i])), its[i]>>]))
  ELSE its

\* lines 954-963
RejectUnsafe(its, q) == SelectSeq(its, LAMBDA it : Survives(it, RejectBelow(q)))

\* lines 964-981
Returned(survivors, q) ==
  IF survivors = <<>>
  THEN NotFound(<<"All candidate itineraries were rejected by the safety filter", Val(RejectBelow(q))>>)
  ELSE Ok(Take(SortBySafety([i \in 1..Len(survivors) |-> Retotal(survivors[i])], q.safety),
               MaxReturned))

\* lines 770-981: what plan returns for the itineraries the search found
PlanFinish(found, q, DM, ZN) ==
  IF found = <<>> THEN WalkOnly(q, DM, ZN)
  ELSE Returned(RejectUnsafe(AnnotateLegs(EnhanceLegs(found, q, DM, ZN), q, DM, ZN), q), q)

(***************************************************************************)
(* State.                                                                  *)
(*                                                                         *)
(* nav.py:                                                                 *)
(*   url              whether TRIP_UPDATES_URL is set                      *)
(*   feed             what the TripUpdates URL answers at the moment       *)
(*   feedAge          whole poll intervals for which the URL has answered  *)
(*                    what it answers now                                  *)
(*   TRIP_DELAY, TRIP_STOP_DELAY, DANGER_MAP, SAFETY_ZONES   the globals    *)
(*   pc, loc          the position and the locals of each request thread   *)
(*                    (/plan is a sync handler, which the server runs on   *)
(*                    its worker threads)                                  *)
(*   response         the answer of the request that just returned, until  *)
(*                    the client has read it                               *)
(*   loaded           what DANGER_MAP_PATH and SAFETY_ZONES_PATH held at   *)
(*                    the latest load of each                              *)
(*   ann              the position and the locals of the thread that       *)
(*                    annotates a WALK leg, read by read of the globals    *)
(***************************************************************************)
VARIABLES url, feed, feedAge, TRIP_DELAY, TRIP_STOP_DELAY, DANGER_MAP, SAFETY_ZONES,
          pc, loc, response, loaded, ann

navVars == <<url, feed, feedAge, TRIP_DELAY, TRIP_STOP_DELAY, DANGER_MAP, SAFETY_ZONES,
             pc, loc, response, loaded, ann>>

NThreads == 2
MaxFeedAge == 2
Threads == 1..NThreads

\* a configuration test that would take the URL as always set
UrlTakenAsSet(u) == FALSE

\* if not TRIP_UPDATES_URL
NoUrl(u) == ~u

\* a failure path that would forget the maps
ForgetOnFailure(TD, TSD) == [td |-> EmptyDict, tsd |-> EmptyDict]

\* except Exception: pass -- the maps a failed cycle leaves
AfterFailedFetch(TD, TSD) == [td |-> TD, tsd |-> TSD]

\* fetch_trip_updates run without interruption: the maps it leaves
fetch_trip_updates(u, f, TD, TSD) ==
  IF NoUrl(u) THEN [td |-> EmptyDict, tsd |-> EmptyDict]
  ELSE IF f \in FeedFailures THEN AfterFailedFetch(TD, TSD)
  ELSE LET new == ParseFeed(f)
       IN  [td |-> DictUpdate(EmptyDict, new.td), tsd |-> DictUpdate(EmptyDict, new.tsd)]

\* refresh_rt on its own
RefreshFlag(q) == q.refresh_rt

\* if refresh_rt and use_realtime
ShouldRefresh(q) == q.refresh_rt /\ q.use_realtime

\* The queries of the model.
QueryEnds == {<<100, 8100>>, <<4200, 8100>>, <<4200, 100>>, <<20000, 100>>}
DepartInputs ==
  { [depart_now |-> TRUE,  depart_time_s |-> None,       now |-> 3500],
    [depart_now |-> FALSE, depart_time_s |-> Some(3640), now |-> 3500],
    [depart_now |-> FALSE, depart_time_s |-> Some(0),    now |-> 4300],
    [depart_now |-> FALSE, depart_time_s |-> None,       now |-> 3800] }

SearchInputs(ends, departs) ==
  { [from_pos |-> e[1], to_pos |-> e[2],
     depart_now |-> d.depart_now, depart_time_s |-> d.depart_time_s, now |-> d.now,
     max_transfers |-> mt, max_walk_m |-> 800,
     use_realtime |-> ur, refresh_rt |-> rr] :
       e \in ends, d \in departs, mt \in {0, 1}, ur \in BOOLEAN, rr \in BOOLEAN }

\* With no URL, or when the URL fails, the kind of failure makes no difference
\* to a request served alone.
SteadyFeeds == {"http_error"} \cup DOMAIN FeedMessages

FinishInputs ==
  { [enhance_walk |-> ew, walk_alternatives |-> wa, safety |-> sf,
     reject_walk_below |-> rj, allow_walk_only |-> aw, walk_only_max_m |-> 5000,
     provider |-> pv] :
       ew \in BOOLEAN, wa \in {0, 1}, sf \in {"off", "prefer", "strict"},
       rj \in {None, Some(600)}, aw \in BOOLEAN, pv \in {"down", "up"} }

\* the defaults of the request parameters the search does not read
FinishDefaults ==
  [enhance_walk |-> FALSE, walk_alternatives |-> 0, safety |-> "off",
   reject_walk_below |-> None, allow_walk_only |-> TRUE, walk_only_max_m |-> 5000,
   provider |-> "down"]

Query(s, f) ==
  [from_pos |-> s.from_pos, to_pos |-> s.to_pos,
   depart_now |-> s.depart_now, depart_time_s |-> s.depart_time_s, now |-> s.now,
   max_transfers |-> s.max_transfers, max_walk_m |-> s.max_walk_m,
   use_realtime |-> s.use_realtime, refresh_rt |-> s.refresh_rt,
   enhance_walk |-> f.enhance_walk, walk_alternatives |-> f.walk_alternatives,
   safety |-> f.safety, reject_walk_below |-> f.reject_walk_below,
   allow_walk_only |-> f.allow_walk_only, walk_only_max_m |-> f.walk_only_max_m,
   provider |-> f.provider]

\* The locals of a request thread: its query, the outcome of its fetch, the
\* maps td and tsd it built from the feed.
IdleLoc == [q |-> None, fetch |-> "none", parsed |-> None]

\* The response of plan: what it returns, with the query, the outcome of the
\* request's fetch and the delay maps its searches read.
Response(q, fetch, r, TD, TSD) ==
  Some([q |-> q, fetch |-> fetch, status |-> r.status, itineraries |-> r.itineraries,
        detail |-> r.detail, read |-> [td |-> TD, tsd |-> TSD]])

\* the annotating thread between two legs
AnnIdle == [pc |-> "idle", input |-> None, leg |-> None, i |-> 0, matches |-> <<>>,
            values |-> <<>>]

\* The state after the module is imported: the delay maps after the fetch at
\* start, the safety overlay after its two loads.
NavStarted(urls, feeds, setups) ==
  /\ url \in urls
  /\ feed \in feeds
  /\ feedAge = 0
  /\ LET m == fetch_trip_updates(url, feed, EmptyDict, EmptyDict)
     IN  TRIP_DELAY = m.td /\ TRIP_STOP_DELAY = m.tsd
  /\ \E su \in setups :
       /\ DANGER_MAP = _load_danger_map(DangerDefaults, su[1])
       /\ SAFETY_ZONES = _load_safety_zones(su[2])
       /\ loaded = [danger |-> su[1], zones |-> su[2]]
  /\ ann = AnnIdle
  /\ pc = [p \in Threads |-> "idle"]
  /\ loc = [p \in Threads |-> IdleLoc]
  /\ response = None

\* A parameter the request does not read is left at its default:
\* walk_alternatives without enhance_walk or with the provider down,
\* allow_walk_only and (without enhance_walk) the provider when transit
\* itineraries were found.
ReadsAll(found, f) ==
  /\ (~f.enhance_walk \/ f.provider = "down") => f.walk_alternatives = 0
  /\ found # <<>> => f.allow_walk_only
  /\ (found # <<>> /\ ~f.enhance_walk) => f.provider = "down"

(***************************************************************************)
(* TransitAppBackEnd.py.  Time is in seconds since the epoch; a stop's     *)
(* (lat, lng) is its position in metres along a line, and a distance in km *)
(* rounded to 3 decimals is a whole number of metres.  A JSON payload or a *)
(* feed item is a record, key in d is key \in DOMAIN d.                    *)
(***************************************************************************)
REPORT_DECAY_SECONDS == 600

\* a window of one decay period
OneDecay == REPORT_DECAY_SECONDS

\* line 280: REPORT_DECAY_SECONDS * 2
ReportWindow == 2 * REPORT_DECAY_SECONDS
Headway == 600
WalkKmh == 5
BikeKmh == 15

\* int(x / y) for an exact quotient: truncation toward zero
TruncDiv(a, b) == IF a >= 0 THEN a \div b ELSE -((-a) \div b)

\* math.exp(-age / REPORT_DECAY_SECONDS) in millionths, for the ages of the
\* model: whole multiples of REPORT_DECAY_SECONDS inside the window
DecayWeight(age) == <<1000000, 367879, 135335>>[(age \div REPORT_DECAY_SECONDS) + 1]

\* The lists of (arrival_seconds, age) of the model on which the double
\* precision quotient total / total_w comes out just below the exact
\* quotient, an integer, so that int() gives the integer next to it toward
\* zero (measured by running weighted_avg_reports on lists of up to three
\* reports with arrivals 124 and -30 and ages 0, 600 and 1200, in the order
\* of storing).
FloatShort ==
  { << <<-30, 600>> >>,
    << <<-30, 600>>, <<-30, 600>> >>,
    << <<-30, 1200>>, <<-30, 0>> >>,
    << <<124, 600>>, <<124, 600>>, <<124, 600>> >>,
    << <<124, 1200>>, <<124, 600>>, <<124, 0>> >>,
    << <<-30, 600>>, <<-30, 0>>, <<-30, 0>> >>,
    << <<-30, 600>>, <<-30, 600>>, <<-30, 600>> >>,
    << <<-30, 1200>>, <<-30, 600>>, <<-30, 0>> >>,
    << <<-30, 1200>>, <<-30, 1200>>, <<-30, 1200>> >> }

\* reports: a list of <<arrival_seconds, age_seconds>>
weighted_avg_reports(reps) ==
  IF reps = <<>> THEN None
  ELSE LET total_w == SumSeq([i \in 1..Len(reps) |-> DecayWeight(reps[i][2])])
           total   == SumSeq([i \in 1..Len(reps) |-> reps[i][1] * DecayWeight(reps[i][2])])
           exact   == TruncDiv(total, total_w)
       IN  Some(IF reps \in FloatShort
                THEN (IF exact > 0 THEN exact - 1 ELSE exact + 1)
                ELSE exact)

\* lines 276-286: the (arrival_seconds, age) of the reports of the stop (and
\* of the line, when one is asked for) no older than the window
RecentReports(reports, stop_id, line_id, now) ==
  LET rows == SelectSeq(reports, LAMBDA r :
                /\ r.stop_id = stop_id
                /\ (line_id # None /\ Val(line_id) # "") => r.line_id = Val(line_id)
                /\ r.timestamp >= now - ReportWindow)
  IN  [i \in 1..Len(rows) |-> <<rows[i].arrival_seconds, now - rows[i].timestamp>>]

\* d.get(k1) or d.get(k2) or ... for keys with integer values: the first
\* value that is present and not 0, else None
RECURSIVE FirstNumber(_, _)
FirstNumber(d, keys) ==
  IF keys = <<>> THEN None
  ELSE IF Head(keys) \in DOMAIN d /\ d[Head(keys)] # 0 THEN Some(d[Head(keys)])
  ELSE FirstNumber(d, Tail(keys))

\* the same for keys with string values ("" is falsy)
RECURSIVE FirstString(_, _)
FirstString(d, keys) ==
  IF keys = <<>> THEN None
  ELSE IF Head(keys) \in DOMAIN d /\ d[Head(keys)] # "" THEN Some(d[Head(keys)])
  ELSE FirstString(d, Tail(keys))

\* and for keys with list values ([] is falsy)
RECURSIVE FirstList(_, _)
FirstList(d, keys) ==
  IF keys = <<>> THEN <<>>
  ELSE IF Head(keys) \in DOMAIN d /\ d[Head(keys)] # <<>> THEN d[Head(keys)]
  ELSE FirstList(d, Tail(keys))

\* lines 301-303
PayloadItems(payload) == FirstList(payload, <<"arrivals", "predictions", "vehicles">>)

\* lines 304-316: the eta of the first item that has one and is of the stop
\* (and of the line, when one is asked for)
LiveEta(payload, stop_id, line_id) ==
  LET hit(it) ==
        LET sid == FirstNumber(it, <<"stop_id", "stop">>)
            lid == FirstString(it, <<"line", "route", "route_id", "trip_short_name">>)
            eta == FirstNumber(it, <<"eta_seconds", "arrival_in_seconds", "arrival_seconds">>)
        IN  /\ eta # None
            /\ sid = Some(stop_id)
            /\ (line_id = None \/ line_id = Some("") \/ lid = line_id)
      hits == SelectSeq(PayloadItems(payload), hit)
  IN  IF hits = <<>> THEN None
      ELSE FirstNumber(Head(hits), <<"eta_seconds", "arrival_in_seconds", "arrival_seconds">>)

\* lines 290-294: the payload of the latest row of live_updates, if any
LatestPayload(live_updates) ==
  IF live_updates = <<>> THEN None ELSE Some(live_updates[Len(live_updates)].payload)

Put(d, k, v) == [x \in (DOMAIN d) \cup {k} |-> IF x = k THEN v ELSE d[x]]

\* a fusion that would keep the crowd value when both exist
CrowdOverLive(crowd_eta, live_eta) ==
  IF crowd_eta # None THEN [eta |-> crowd_eta, source |-> "crowd"]
  ELSE IF live_eta # None THEN [eta |-> live_eta, source |-> "live_feed"]
  ELSE [eta |-> None, source |-> "schedule"]

\* lines 318-336: combined_eta and source after the two components.
\* int(C * 0.4 + L * 0.6) is the exact truncation for the values of the model.
CombineSources(crowd_eta, live_eta) ==
  IF crowd_eta # None /\ live_eta # None
  THEN [eta |-> Some(TruncDiv(4 * Val(crowd_eta) + 6 * Val(live_eta), 10)),
        source |-> "crowd+live"]
  ELSE IF crowd_eta # None THEN [eta |-> crowd_eta, source |-> "crowd"]
  ELSE IF live_eta # None THEN [eta |-> live_eta, source |-> "live_feed"]
  ELSE [eta |-> None, source |-> "schedule"]

\* a fallback that would always answer one headway
WholeHeadway(seconds_since_epoch) == Headway

\* lines 340-344: max(0, next_arrival - seconds_since_epoch)
ScheduleEta(seconds_since_epoch) ==
  LET next_arrival == ((seconds_since_epoch \div Headway) + 1) * Headway
  IN  Max(0, next_arrival - seconds_since_epoch)

\* lines 351-359: int(dist_km / max(0.001, speed_kmh) * 3600)
WalkBikeSeconds(dist_m, mode) ==
  (dist_m * 3600) \div ((IF mode = "biking" THEN BikeKmh ELSE WalkKmh) * 1000)

\* a final tag that would call every walking or biking answer an estimate
EstimateWhenOnFoot(mode, source, walk_bike_seconds) ==
  IF mode \in {"walking", "biking"} THEN "estimate" ELSE source

\* line 368
FinalSource(mode, source, walk_bike_seconds) ==
  IF mode \in {"walking", "biking"} /\ source = "schedule"
  THEN (IF walk_bike_seconds # 0 THEN "estimate" ELSE "schedule")
  ELSE source

\* an answer that would report success with nothing in it
EmptyOk == [status |-> 200, detail |-> ""]

\* lines 273-274
NotFoundEta == [status |-> 404, detail |-> "stop not found"]

\* the computed value passed on as it is
Unclamped(eta_seconds) == eta_seconds

\* line 376: int(max(0, eta_seconds))
ClampEta(eta_seconds) == Max(0, eta_seconds)

\* get_eta for a request req = [stop_id, line_id, mode, origin] at time now
get_eta(req, now, stops, reports, live_updates) ==
  IF req.stop_id \notin DOMAIN stops THEN NotFoundEta
  ELSE
    LET rep_list  == RecentReports(reports, req.stop_id, req.line_id, now)
        crowd_eta == weighted_avg_reports(rep_list)
        latest    == LatestPayload(live_updates)
        live_eta  == IF latest = None THEN None
                     ELSE LiveEta(Val(latest), req.stop_id, req.line_id)
        fused     == CombineSources(crowd_eta, live_eta)
        combined_eta == IF fused.eta = None THEN ScheduleEta(now) ELSE Val(fused.eta)
        has_origin == req.origin # None
        dist_m    == IF has_origin THEN Abs(Val(req.origin) - stops[req.stop_id].pos) ELSE 0
        walk_bike_seconds == IF has_origin THEN WalkBikeSeconds(dist_m, req.mode) ELSE 0
        d1 == [k \in {"crowd_count"} |-> Len(rep_list)]
        d2 == IF crowd_eta # None THEN Put(d1, "crowd_eta", Val(crowd_eta)) ELSE d1
        d3 == IF live_eta # None
              THEN Put(Put(d2, "live_eta", Val(live_eta)), "live_sample", latest)
              ELSE d2
        d4 == IF fused.eta = None THEN Put(d3, "assumed_headway_seconds", Headway) ELSE d3
        d5 == IF has_origin
              THEN Put(Put(d4, "origin_distance_km", dist_m), "walk_bike_seconds", walk_bike_seconds)
              ELSE d4
        eta_seconds == IF req.mode \in {"walking", "biking"} THEN walk_bike_seconds
                       ELSE combined_eta + walk_bike_seconds
    IN  [status |-> 200, stop_id |-> req.stop_id, line_id |-> req.line_id,
         eta_seconds |-> ClampEta(eta_seconds),
         source |-> FinalSource(req.mode, fused.source, walk_bike_seconds),
         details |-> d5,
         combined |-> [eta |-> combined_eta, source |-> fused.source]]

(***************************************************************************)
(* TransitAppBackEnd.py: state.                                            *)
(*   clock         the wall clock, seconds since the epoch                 *)
(*   stops         the stops table, by id                                  *)
(*   reports       the reports table, in the order of storing              *)
(*   live_updates  the live_updates table, in the order of storing (which  *)
(*                 is the order of fetched_at)                             *)
(*   eta_out       the answer of the /eta request that just returned, with *)
(*                 the request and the time it was served, until the       *)
(*                 client has read it                                      *)
(***************************************************************************)
VARIABLES clock, stops, reports, live_updates, eta_out

etaVars == <<clock, stops, reports, live_updates, eta_out>>
vars == <<navVars, etaVars>>

MaxElapsed == 1800
MaxReports == 2
MaxLiveRows == 2

\* The process starts on a headway boundary or 250 s after one, and the clock
\* is read every REPORT_DECAY_SECONDS.
StartClocks == {3000000 * Headway, 3000000 * Headway + 250}
LastStart == 3000000 * Headway + 250
ClockStep == REPORT_DECAY_SECONDS

\* A database seeded with one stop, and with or without a live row that
\* carries arrivals at the top level of its payload.
SeedStops == [id \in {1} |-> [name |-> "HUB", pos |-> 0]]
ArrivalItems ==
  << [stop_id |-> 2, line |-> "22", eta_seconds |-> 60],
     [stop |-> 1, route |-> "7", eta_seconds |-> 0],
     [stop_id |-> 1, line |-> "22", arrival_in_seconds |-> 300],
     [stop_id |-> 1, route_id |-> "7", arrival_seconds |-> -50] >>
SeedLive ==
  { <<>>,
    << [fetched_at |-> 3000000 * Headway - ClockStep, payload |-> [arrivals |-> ArrivalItems]] >> }

\* a payload that is the feed's answer itself
FlatPayload(kind, now) ==
  IF kind = "json_feed" THEN [arrivals |-> ArrivalItems] ELSE [raw_bytes_length |-> 40]

\* lines 150 and 198: the payload the poller stores
PollerPayload(kind, now) ==
  [source |-> kind, fetched_at |-> now,
   data |-> IF kind = "json_feed" THEN [arrivals |-> ArrivalItems]
            ELSE [raw_bytes_length |-> 40]]

ReportInputs ==
  { [stop_id |-> 1, line_id |-> "22", arrival_seconds |-> 124],
    [stop_id |-> 1, line_id |-> "7",  arrival_seconds |-> -30],
    [stop_id |-> 2, line_id |-> "22", arrival_seconds |-> 124] }
StopInputs == { [id |-> 1, name |-> "HUB", pos |-> 0], [id |-> 2, name |-> "QUAD", pos |-> 500] }
\* every request for the seeded stop, and some for a stop that is not there
\* until create_stop adds it
EtaRequests ==
  { [stop_id |-> 1, line_id |-> l, mode |-> m, origin |-> o] :
      l \in {None, Some("22"), Some("7")},
      m \in {"transit", "walking", "biking"}, o \in {None, Some(0), Some(1000)} }
  \cup
  { [stop_id |-> 2, line_id |-> None, mode |-> m, origin |-> o] :
      m \in {"transit", "walking"}, o \in {None, Some(1000)} }

EtaStarted(clocks, seeds) ==
  /\ clock \in clocks
  /\ stops = SeedStops
  /\ reports = <<>>
  /\ live_updates \in seeds
  /\ eta_out = None

(***************************************************************************)
(* nav.py: plan, requests served one at a time.                            *)
(***************************************************************************)
FetchOutcome(s, u, f) ==
  IF ~ShouldRefresh(s) THEN "none"
  ELSE IF NoUrl(u) THEN "no_url"
  ELSE IF f \in FeedFailures THEN "failed" ELSE "ok"

\* lines 751-981.  (The maps and the itineraries found are bound by \E over
\* a one-element set, so that they are computed once for all f.)
Plan(s) ==
  /\ response = None
  /\ \A p \in Threads : pc[p] = "idle"
  /\ \E m \in { IF ShouldRefresh(s)
                THEN fetch_trip_updates(url, feed, TRIP_DELAY, TRIP_STOP_DELAY)
                ELSE [td |-> TRIP_DELAY, tsd |-> TRIP_STOP_DELAY] } :
       /\ TRIP_DELAY' = m.td
       /\ TRIP_STOP_DELAY' = m.tsd
       /\ \E found \in { PlanSearch(Query(s, FinishDefaults), url, m.td, m.tsd) } :
            \E f \in FinishInputs :
              /\ ReadsAll(found, f)
              /\ response' = Response(Query(s, f), FetchOutcome(s, url, feed),
                                      PlanFinish(found, Query(s, f), DANGER_MAP, SAFETY_ZONES),
                                      m.td, m.tsd)
  /\ UNCHANGED <<url, feed, feedAge, DANGER_MAP, SAFETY_ZONES, pc, loc>>
  /\ UNCHANGED <<loaded, ann>>
  /\ UNCHANGED etaVars

\* the client reads the response
Deliver ==
  /\ response # None
  /\ response' = None
  /\ UNCHANGED <<url, feed, feedAge, TRIP_DELAY, TRIP_STOP_DELAY, DANGER_MAP, SAFETY_ZONES,
                 pc, loc>>
  /\ UNCHANGED <<loaded, ann>>
  /\ UNCHANGED etaVars

\* The stop ids asked of stop_routes: the stops of the feed and two that are
\* not in it.
StopRouteInputs == Range(StopIds) \cup {"Z", ""}

\* lines 718-727: the response is the answer with the stop asked for
StopRoutes(sid) ==
  /\ response = None
  /\ \A p \in Threads : pc[p] = "idle"
  /\ response' = Some([stop_id |-> sid, answer |-> stop_routes(sid)])
  /\ UNCHANGED <<url, feed, feedAge, TRIP_DELAY, TRIP_STOP_DELAY, DANGER_MAP, SAFETY_ZONES,
                 pc, loc>>
  /\ UNCHANGED <<loaded, ann>>
  /\ UNCHANGED etaVars

(***************************************************************************)
(* nav.py: the reloads of the safety overlay, and the annotation of one     *)
(* WALK leg by a request thread, one read of a global at a time.  A reload *)
(* binds the global to a new dict; a read takes the dict bound at that     *)
(* moment.                                                                 *)
(***************************************************************************)
\* what a safety file can hold at a load
DangerFileStates == {"missing", "corrupt"} \cup DOMAIN DangerFiles
ZoneFileStates == {"missing", "corrupt"} \cup DOMAIN ZoneFiles

\* lines 689-692
danger_reload(file) ==
  /\ DANGER_MAP' = _load_danger_map(DANGER_MAP, file)
  /\ loaded' = [loaded EXCEPT !.danger = file]
  /\ UNCHANGED <<url, feed, feedAge, TRIP_DELAY, TRIP_STOP_DELAY, SAFETY_ZONES,
                 pc, loc, response, ann>>
  /\ UNCHANGED etaVars

\* lines 684-687
safety_reload(file) ==
  /\ SAFETY_ZONES' = _load_safety_zones(file)
  /\ loaded' = [loaded EXCEPT !.zones = file]
  /\ UNCHANGED <<url, feed, feedAge, TRIP_DELAY, TRIP_STOP_DELAY, DANGER_MAP,
                 pc, loc, response, ann>>
  /\ UNCHANGED etaVars

\* The WALK legs plan annotates for the walk from position 100 to Stop A:
\* the leg build_walk_leg makes, and the temporary leg of each route of the
\* provider (lines 785-795 and 866-875).
AnnLegs ==
  LET plain == build_walk_leg(<<"Origin">>, 100, <<STOPS["A"].name>>, STOPS["A"].pos)
      routes == ProviderRoutes(100, STOPS["A"].pos)
  IN  {plain} \cup
      { [plain EXCEPT !.duration_sec = IF routes[r].duration_sec # 0
                                       THEN routes[r].duration_sec ELSE plain.duration_sec,
                      !.geometry = Some(routes[r].geometry),
                      !.steps = Some(routes[r].steps)] : r \in 1..Len(routes) }

\* lines 554-562: the score of the danger map from the matches of the steps
MatchesScore(matches) ==
  LET total_dist == SumSeq([i \in 1..Len(matches) |-> matches[i].distance_m])
      weighted   == SumSeq([i \in 1..Len(matches) |-> matches[i].score * matches[i].distance_m])
      plain      == SumSeq([i \in 1..Len(matches) |-> matches[i].score])
  IN  IF total_dist <= 0 THEN RoundDiv(plain, Len(matches))
      ELSE RoundDiv(weighted, total_dist)

\* lines 621-632: the sample points of a leg
Samples(leg) ==
  LET geom == IF leg.geometry = None THEN <<>> ELSE Val(leg.geometry)
      idx  == SelectSeq([i \in 1..Len(geom) |-> i], LAMBDA i : (i - 1) % SampleStride = 0)
  IN  IF geom # <<>> THEN [k \in 1..Len(idx) |-> geom[idx[k]]]
      ELSE << leg.from_pos, (leg.from_pos + leg.to_pos) \div 2, leg.to_pos >>

UnchangedByAnnotate ==
  /\ UNCHANGED <<url, feed, feedAge, TRIP_DELAY, TRIP_STOP_DELAY, DANGER_MAP, SAFETY_ZONES,
                 pc, loc, response, loaded>>
  /\ UNCHANGED etaVars

\* line 529: steps = leg.steps or []; if not steps
AnnotateBegin(leg) ==
  /\ ann.pc = "idle"
  /\ ann' = [AnnIdle EXCEPT !.input = Some(leg), !.leg = Some(leg), !.i = 1,
                            !.pc = IF leg.steps = None \/ leg.steps = Some(<<>>)
                                   THEN "default_score" ELSE "roads"]
  /\ UnchangedByAnnotate

\* line 532: s = _danger_to_safety(DANGER_MAP.get("default", 5)); line 533
ReadDefaultScore ==
  /\ ann.pc = "default_score"
  /\ ann' = [ann EXCEPT !.pc = "default_evidence",
                        !.leg = Some([Val(ann.leg) EXCEPT
                                  !.safety_score = Some(_danger_to_safety(DANGER_MAP.default))])]
  /\ UnchangedByAnnotate

\* line 534: the evidence reads DANGER_MAP.get("default", 5) again
ReadDefaultEvidence ==
  /\ ann.pc = "default_evidence"
  /\ ann' = [ann EXCEPT !.pc = "zones",
                        !.leg = Some([Val(ann.leg) EXCEPT
                                  !.safety_matches =
                                     Some(<< Evidence("default", "", DANGER_MAP.default,
                                                      Val(Val(ann.leg).safety_score), 0) >>)])]
  /\ UnchangedByAnnotate

\* lines 550-562: the step has its danger; after the last step the leg has
\* its score and its matches
StepScored(danger) ==
  LET st      == Val(Val(ann.input).steps)[ann.i]
      matches == Append(ann.matches,
                        Evidence("road", st.name, danger, _danger_to_safety(danger), st.distance_m))
  IN  IF ann.i < Len(Val(Val(ann.input).steps))
      THEN [ann EXCEPT !.pc = "roads", !.i = ann.i + 1, !.matches = matches]
      ELSE [ann EXCEPT !.pc = "zones", !.i = 1, !.matches = matches,
                       !.leg = Some([Val(ann.leg) EXCEPT
                                 !.safety_score = Some(MatchesScore(matches)),
                                 !.safety_matches = Some(matches)])]

\* line 543: danger = DANGER_MAP["roads"].get(key)
ReadRoads ==
  /\ ann.pc = "roads"
  /\ LET name == Val(Val(ann.input).steps)[ann.i].name
     IN  ann' = IF NormName[name] \in DOMAIN DANGER_MAP.roads
                THEN StepScored(DANGER_MAP.roads[NormName[name]])
                ELSE [ann EXCEPT !.pc = IF _infer_type_from_name(name) # None
                                        THEN "types" ELSE "default"]
  /\ UnchangedByAnnotate

\* lines 545-547: danger = DANGER_MAP["types"].get(typ)
ReadTypes ==
  /\ ann.pc = "types"
  /\ LET typ == Val(_infer_type_from_name(Val(Val(ann.input).steps)[ann.i].name))
     IN  ann' = IF typ \in DOMAIN DANGER_MAP.types
                THEN StepScored(DANGER_MAP.types[typ])
                ELSE [ann EXCEPT !.pc = "default"]
  /\ UnchangedByAnnotate

\* lines 548-549: danger = DANGER_MAP.get("default", 5)
ReadDefault ==
  /\ ann.pc = "default"
  /\ ann' = StepScored(DANGER_MAP.default)
  /\ UnchangedByAnnotate

\* lines 636-641 and 942-945: the zone score and evidence of the leg, then the
\* two scores combined
ZonesScored(leg, values) ==
  CombineScores(
    IF values = <<>> THEN leg
    ELSE [leg EXCEPT
            !.safety_zones_score =
               Some(RoundDiv(SumSeq([k \in 1..Len(values) |-> values[k][2]]), Len(values))),
            !.safety_matches =
               Some((IF leg.safety_matches = None THEN <<>> ELSE Val(leg.safety_matches))
                    \o [k \in 1..Len(values) |->
                          Evidence("zone", "", 0, values[k][2], values[k][1])])])

\* lines 633-636: s = _zone_score_at(la, lo), which reads SAFETY_ZONES once
ReadZones ==
  /\ ann.pc = "zones"
  /\ LET pt     == Samples(Val(ann.input))[ann.i]
         s      == _zone_score_at(pt, SAFETY_ZONES)
         values == IF s = None THEN ann.values ELSE Append(ann.values, <<pt, Val(s)>>)
     IN  ann' = IF ann.i < Len(Samples(Val(ann.input)))
                THEN [ann EXCEPT !.i = ann.i + 1, !.values = values]
                ELSE [ann EXCEPT !.pc = "done", !.values = values,
                                 !.leg = Some(ZonesScored(Val(ann.leg), values))]
  /\ UnchangedByAnnotate

\* the annotated leg goes on into the itinerary
AnnotateReturn ==
  /\ ann.pc = "done"
  /\ ann' = AnnIdle
  /\ UnchangedByAnnotate

(***************************************************************************)
(* nav.py: plan on the server's threads.  A thread is at                   *)
(*   "idle"           no request                                           *)
(*   "fetch"          line 752, about to call fetch_trip_updates           *)
(*   "no_url_tsd"     line 131, between the two clear() calls              *)
(*   "clear_td" "update_td" "clear_tsd" "update_tsd"                       *)
(*                    lines 156-157, before each of the four calls         *)
(*   "search"         line 754, the rest of plan                           *)
(***************************************************************************)
Goto(p, label) == pc' = [pc EXCEPT ![p] = label]

PlanBegin(p, s) ==
  /\ response = None /\ pc[p] = "idle"
  /\ loc' = [loc EXCEPT ![p] = [q |-> Some(Query(s, FinishDefaults)), fetch |-> "none",
                                parsed |-> None]]
  /\ Goto(p, IF ShouldRefresh(s) THEN "fetch" ELSE "search")
  /\ UNCHANGED <<url, feed, feedAge, TRIP_DELAY, TRIP_STOP_DELAY, DANGER_MAP, SAFETY_ZONES,
                 response>>
  /\ UNCHANGED <<loaded, ann>>
  /\ UNCHANGED etaVars

\* lines 130-131, TRIP_DELAY.clear()
FetchNoUrl(p) ==
  /\ response = None /\ pc[p] = "fetch" /\ NoUrl(url)
  /\ TRIP_DELAY' = EmptyDict
  /\ loc' = [loc EXCEPT ![p].fetch = "no_url"]
  /\ Goto(p, "no_url_tsd")
  /\ UNCHANGED <<url, feed, feedAge, TRIP_STOP_DELAY, DANGER_MAP, SAFETY_ZONES, response>>
  /\ UNCHANGED <<loaded, ann>>
  /\ UNCHANGED etaVars

\* lines 131-132, TRIP_STOP_DELAY.clear(); return
FetchNoUrlDone(p) ==
  /\ response = None /\ pc[p] = "no_url_tsd"
  /\ TRIP_STOP_DELAY' = EmptyDict
  /\ Goto(p, "search")
  /\ UNCHANGED <<url, feed, feedAge, TRIP_DELAY, DANGER_MAP, SAFETY_ZONES, loc, response>>
  /\ UNCHANGED <<loaded, ann>>
  /\ UNCHANGED etaVars

\* lines 133-155: the request, the decoding and the building of td and tsd;
\* a failure goes to except Exception: pass
FetchGet(p) ==
  /\ response = None /\ pc[p] = "fetch" /\ ~NoUrl(url)
  /\ IF feed \in FeedFailures
     THEN /\ LET m == AfterFailedFetch(TRIP_DELAY, TRIP_STOP_DELAY)
             IN  TRIP_DELAY' = m.td /\ TRIP_STOP_DELAY' = m.tsd
          /\ loc' = [loc EXCEPT ![p].fetch = "failed"]
          /\ Goto(p, "search")
     ELSE /\ UNCHANGED <<TRIP_DELAY, TRIP_STOP_DELAY>>
          /\ loc' = [loc EXCEPT ![p].fetch = "ok", ![p].parsed = Some(ParseFeed(feed))]
          /\ Goto(p, "clear_td")
  /\ UNCHANGED <<url, feed, feedAge, DANGER_MAP, SAFETY_ZONES, response>>
  /\ UNCHANGED <<loaded, ann>>
  /\ UNCHANGED etaVars

\* line 156, TRIP_DELAY.clear()
ClearTd(p) ==
  /\ response = None /\ pc[p] = "clear_td"
  /\ TRIP_DELAY' = EmptyDict
  /\ Goto(p, "update_td")
  /\ UNCHANGED <<url, feed, feedAge, TRIP_STOP_DELAY, DANGER_MAP, SAFETY_ZONES, loc, response>>
  /\ UNCHANGED <<loaded, ann>>
  /\ UNCHANGED etaVars

\* line 156, TRIP_DELAY.update(td)
UpdateTd(p) ==
  /\ response = None /\ pc[p] = "update_td"
  /\ TRIP_DELAY' = DictUpdate(TRIP_DELAY, Val(loc[p].parsed).td)
  /\ Goto(p, "clear_tsd")
  /\ UNCHANGED <<url, feed, feedAge, TRIP_STOP_DELAY, DANGER_MAP, SAFETY_ZONES, loc, response>>
  /\ UNCHANGED <<loaded, ann>>
  /\ UNCHANGED etaVars

\* line 157, TRIP_STOP_DELAY.clear()
ClearTsd(p) ==
  /\ response = None /\ pc[p] = "clear_tsd"
  /\ TRIP_STOP_DELAY' = EmptyDict
  /\ Goto(p, "update_tsd")
  /\ UNCHANGED <<url, feed, feedAge, TRIP_DELAY, DANGER_MAP, SAFETY_ZONES, loc, response>>
  /\ UNCHANGED <<loaded, ann>>
  /\ UNCHANGED etaVars

\* line 157, TRIP_STOP_DELAY.update(tsd)
UpdateTsd(p) ==
  /\ response = None /\ pc[p] = "update_tsd"
  /\ TRIP_STOP_DELAY' = DictUpdate(TRIP_STOP_DELAY, Val(loc[p].parsed).tsd)
  /\ Goto(p, "search")
  /\ UNCHANGED <<url, feed, feedAge, TRIP_DELAY, DANGER_MAP, SAFETY_ZONES, loc, response>>
  /\ UNCHANGED <<loaded, ann>>
  /\ UNCHANGED etaVars

\* lines 754-981
PlanRun(p) ==
  /\ response = None /\ pc[p] = "search"
  /\ LET q == Val(loc[p].q)
     IN  \E found \in { PlanSearch(q, url, TRIP_DELAY, TRIP_STOP_DELAY) } :
           response' = Response(q, loc[p].fetch, PlanFinish(found, q, DANGER_MAP, SAFETY_ZONES),
                                TRIP_DELAY, TRIP_STOP_DELAY)
  /\ loc' = [loc EXCEPT ![p] = IdleLoc]
  /\ Goto(p, "idle")
  /\ UNCHANGED <<url, feed, feedAge, TRIP_DELAY, TRIP_STOP_DELAY, DANGER_MAP, SAFETY_ZONES>>
  /\ UNCHANGED <<loaded, ann>>
  /\ UNCHANGED etaVars

\* the agency publishes another message, or its server starts or stops failing
FeedChange(f) ==
  /\ response = None /\ f # feed
  /\ feed' = f
  /\ feedAge' = 0
  /\ UNCHANGED <<url, TRIP_DELAY, TRIP_STOP_DELAY, DANGER_MAP, SAFETY_ZONES, pc, loc, response>>
  /\ UNCHANGED <<loaded, ann>>
  /\ UNCHANGED etaVars

\* a poll interval passes
PollIntervalPasses ==
  /\ response = None /\ feedAge < MaxFeedAge
  /\ feedAge' = feedAge + 1
  /\ UNCHANGED <<url, feed, TRIP_DELAY, TRIP_STOP_DELAY, DANGER_MAP, SAFETY_ZONES, pc, loc,
                 response>>
  /\ UNCHANGED <<loaded, ann>>
  /\ UNCHANGED etaVars

(***************************************************************************)
(* TransitAppBackEnd.py: operations.                                       *)
(***************************************************************************)
ClockAdvance ==
  /\ eta_out = None /\ clock + ClockStep <= LastStart + MaxElapsed
  /\ clock' = clock + ClockStep
  /\ UNCHANGED <<stops, reports, live_updates, eta_out>>
  /\ UNCHANGED navVars

\* lines 218-234
create_report(r) ==
  /\ eta_out = None /\ Len(reports) < MaxReports
  /\ reports' = Append(reports, [timestamp |-> clock, stop_id |-> r.stop_id,
                                 line_id |-> r.line_id, arrival_seconds |-> r.arrival_seconds])
  /\ UNCHANGED <<clock, stops, live_updates, eta_out>>
  /\ UNCHANGED navVars

\* lines 245-251; the commit fails on an id that is already there
create_stop(s) ==
  /\ eta_out = None
  /\ stops' = IF s.id \in DOMAIN stops THEN stops
              ELSE Put(stops, s.id, [name |-> s.name, pos |-> s.pos])
  /\ UNCHANGED <<clock, reports, live_updates, eta_out>>
  /\ UNCHANGED navVars

\* lines 149-152 and 197-200: the poller stores what one of its feeds answered
poll_live_feed_loop(kind) ==
  /\ eta_out = None /\ Len(live_updates) < MaxLiveRows
  /\ live_updates' = Append(live_updates,
                            [fetched_at |-> clock, payload |-> PollerPayload(kind, clock)])
  /\ UNCHANGED <<clock, stops, reports, eta_out>>
  /\ UNCHANGED navVars

\* lines 254-379
GetEta(req) ==
  /\ eta_out = None
  /\ eta_out' = Some([req |-> req, at |-> clock,
                      out |-> get_eta(req, clock, stops, reports, live_updates)])
  /\ UNCHANGED <<clock, stops, reports, live_updates>>
  /\ UNCHANGED navVars

\* a first page of the table: the stop with the least id
FirstPage(rows) ==
  {[id |-> i, name |-> rows[i].name, pos |-> rows[i].pos] :
     i \in {j \in DOMAIN rows : \A k \in DOMAIN rows : j <= k}}

\* lines 238-242: db.query(Stop).all() as StopOut rows (in no stated order)
list_stops(rows) ==
  {[id |-> i, name |-> rows[i].name, pos |-> rows[i].pos] : i \in DOMAIN rows}

\* lines 237-242
ListStops ==
  /\ eta_out = None
  /\ eta_out' = Some([req |-> <<>>, at |-> clock,
                      out |-> [status |-> 200, stops |-> list_stops(stops)]])
  /\ UNCHANGED <<clock, stops, reports, live_updates>>
  /\ UNCHANGED navVars

\* the client reads the answer
DeliverEta ==
  /\ eta_out # None
  /\ eta_out' = None
  /\ UNCHANGED <<clock, stops, reports, live_updates>>
  /\ UNCHANGED navVars

(***************************************************************************)
(* Specifications.                                                         *)
(*   SpecPlan  nav.py, one request at a time, over the whole query space   *)
(*   SpecNav   nav.py, requests on concurrent threads while the feed       *)
(*             changes and time passes                                     *)
(*   SpecEta   TransitAppBackEnd.py                                        *)
(*   SpecBackend  TransitAppBackEnd.py with list_stops, from an empty      *)
(*             live_updates table                                          *)
(*   SpecSafety  the reloads of the safety overlay and the annotation of a *)
(*             WALK leg, read by read                                      *)
(*   SpecLookup  stop_routes of nav.py and get_eta of TransitAppBackEnd.py *)
(*             over their stop stores                                      *)
(***************************************************************************)
NavAtRest == NavStarted({FALSE}, {"http_error"}, {<<"missing", "missing">>})
EtaAtRest == EtaStarted({LastStart}, {<<>>})

InitPlan ==
  /\ NavStarted(BOOLEAN, SteadyFeeds, {<<"missing", "missing">>, <<"D1", "Z1">>})
  /\ EtaAtRest
NextPlan ==
  \/ \E s \in SearchInputs(QueryEnds, DepartInputs) : Plan(s)
  \/ Deliver
SpecPlan == InitPlan /\ [][NextPlan]_vars

NavInputs ==
  { s \in SearchInputs({<<100, 8100>>},
                       { [depart_now |-> TRUE, depart_time_s |-> None, now |-> 3500] }) :
      s.max_transfers = 1 /\ (s.use_realtime \/ s.refresh_rt) }

InitNav ==
  /\ NavStarted(BOOLEAN, FeedStates, {<<"missing", "missing">>})
  /\ EtaAtRest
NextNav ==
  \/ \E p \in Threads, s \in NavInputs : PlanBegin(p, s)
  \/ \E p \in Threads : FetchNoUrl(p)
  \/ \E p \in Threads : FetchNoUrlDone(p)
  \/ \E p \in Threads : FetchGet(p)
  \/ \E p \in Threads : ClearTd(p)
  \/ \E p \in Threads : UpdateTd(p)
  \/ \E p \in Threads : ClearTsd(p)
  \/ \E p \in Threads : UpdateTsd(p)
  \/ \E p \in Threads : PlanRun(p)
  \/ \E f \in FeedStates : FeedChange(f)
  \/ PollIntervalPasses
  \/ Deliver
SpecNav == InitNav /\ [][NextNav]_vars

InitEta ==
  /\ EtaStarted(StartClocks, SeedLive)
  /\ NavAtRest
NextEta ==
  \/ ClockAdvance
  \/ \E r \in ReportInputs : create_report(r)
  \/ \E s \in StopInputs : create_stop(s)
  \/ \E k \in {"json_feed", "gtfs_rt"} : poll_live_feed_loop(k)
  \/ \E req \in EtaRequests : GetEta(req)
  \/ DeliverEta
SpecEta == InitEta /\ [][NextEta]_vars

\* the backend from a live_updates table that only its poller writes
InitBackend ==
  /\ EtaStarted({LastStart}, {<<>>})
  /\ NavAtRest
NextBackend ==
  \/ \E r \in ReportInputs : create_report(r)
  \/ \E s \in StopInputs : create_stop(s)
  \/ \E k \in {"json_feed", "gtfs_rt"} : poll_live_feed_loop(k)
  \/ \E req \in EtaRequests : GetEta(req)
  \/ ListStops
  \/ DeliverEta
SpecBackend == InitBackend /\ [][NextBackend]_vars

\* the safety overlay: reloads while a request thread annotates a WALK leg
InitSafety == NavAtRest /\ EtaAtRest
NextSafety ==
  \/ \E file \in DangerFileStates : danger_reload(file)
  \/ \E file \in ZoneFileStates : safety_reload(file)
  \/ \E leg \in AnnLegs : AnnotateBegin(leg)
  \/ ReadDefaultScore
  \/ ReadDefaultEvidence
  \/ ReadRoads
  \/ ReadTypes
  \/ ReadDefault
  \/ ReadZones
  \/ AnnotateReturn
SpecSafety == InitSafety /\ [][NextSafety]_vars

\* the lookups by stop id of the two programs, over their stores
InitLookup ==
  /\ NavStarted(BOOLEAN, SteadyFeeds, {<<"missing", "missing">>})
  /\ EtaStarted({LastStart}, SeedLive)
NextLookup ==
  \/ \E sid \in StopRouteInputs : StopRoutes(sid)
  \/ Deliver
  \/ \E r \in ReportInputs : create_report(r)
  \/ \E s \in StopInputs : create_stop(s)
  \/ \E req \in EtaRequests : GetEta(req)
  \/ DeliverEta
SpecLookup == InitLookup /\ [][NextLookup]_vars

(***************************************************************************)
(* Properties.                                                             *)
(***************************************************************************)
Itineraries == Val(response).itineraries

ScheduledRow(leg, stop) == Val(FirstRowAt(STOP_TIMES_BY_TRIP(leg.trip.trip_id), stop))

\* the delay maps are those of one whole fetch: both empty, or both built
\* from one message
ConsistentPair(m) ==
  \/ m = [td |-> EmptyDict, tsd |-> EmptyDict]
  \/ \E f \in DOMAIN FeedMessages : m = ParseFeed(f)

FetchLabels == {"fetch", "no_url_tsd", "clear_td", "update_td", "clear_tsd", "update_tsd"}

\* C1: in every one-transfer itinerary, the second transit leg leaves the
\* interchange stop (adjusted departure) at least 120 s after the first
\* transit leg arrives there (adjusted arrival).
C1_TransferBuffer ==
  response # None =>
    \A i \in DOMAIN Itineraries :
      Itineraries[i].transfers = 1 =>
        Itineraries[i].legs[3].trip.dep >= Itineraries[i].legs[2].trip.arr + TransferBufferSec

\* C2: the delay maps a query reads while fetches run on other threads are
\* TripDelay and StopDelay of the same fetch, never a half-updated pair.
C2_NoTornRead ==
  response # None => ConsistentPair(Val(response).read)

\* C3: a fetch that fails with a URL configured leaves TRIP_DELAY and
\* TRIP_STOP_DELAY as they were and returns to plan, which goes on.
C3_FailedFetchKeepsMaps ==
  [][\A p \in Threads :
       (pc[p] = "fetch" /\ url /\ feed \in FeedFailures /\ pc'[p] # "fetch")
         => /\ TRIP_DELAY' = TRIP_DELAY
            /\ TRIP_STOP_DELAY' = TRIP_STOP_DELAY
            /\ pc'[p] = "search"]_vars

C3_Witness ==
  \E p \in Threads :
    /\ pc[p] = "search" /\ loc[p].fetch = "failed"
    /\ TRIP_DELAY # EmptyDict /\ TRIP_STOP_DELAY # EmptyDict

\* C4: with no URL configured both delay maps are empty in every state, and
\* every transit leg plan returns has the scheduled times of its trip.
C4_NoUrlNoDelay ==
  ~url =>
    /\ TRIP_DELAY = EmptyDict
    /\ TRIP_STOP_DELAY = EmptyDict
    /\ response # None =>
         \A i \in DOMAIN Itineraries : \A k \in DOMAIN Itineraries[i].legs :
           LET leg == Itineraries[i].legs[k]
           IN  leg.mode = "TRANSIT" =>
                 /\ leg.trip.dep = ScheduledRow(leg, leg.trip.from_stop).dep_sec
                 /\ leg.trip.arr = ScheduledRow(leg, leg.trip.to_stop).arr_sec

C4_Witness ==
  /\ ~url /\ feed \in DOMAIN FeedMessages
  /\ response # None
  /\ Val(response).fetch = "no_url"
  /\ \E i \in DOMAIN Itineraries : \E k \in DOMAIN Itineraries[i].legs :
       Itineraries[i].legs[k].mode = "TRANSIT"

C6_DurationIsSumOfLegs ==
  response # None =>
    \A i \in DOMAIN Itineraries :
      Itineraries[i].duration_sec =
        SumSeq([k \in 1..Len(Itineraries[i].legs) |-> Itineraries[i].legs[k].duration_sec])

C6_Witness ==
  /\ response # None
  /\ Val(response).q.safety = "strict" /\ Val(response).q.enhance_walk
  /\ \E i \in DOMAIN Itineraries :
       /\ Itineraries[i].transfers = 1
       /\ \E k \in DOMAIN Itineraries[i].legs :
            LET leg == Itineraries[i].legs[k]
            IN  /\ leg.mode = "WALK" /\ leg.duration_sec > 0
                /\ leg.safety_score # None /\ Val(leg.safety_score) < 1000

EtaOk == eta_out # None /\ Val(eta_out).out.status = 200
EtaReq == Val(eta_out).req
EtaAt == Val(eta_out).at
Eta == Val(eta_out).out

\* some stored report is of the request's stop (and line) and inside the window
HasCrowd ==
  \E i \in DOMAIN reports :
    /\ reports[i].stop_id = EtaReq.stop_id
    /\ EtaReq.line_id # None => reports[i].line_id = Val(EtaReq.line_id)
    /\ EtaAt - reports[i].timestamp <= ReportWindow

\* the latest live row has an arrival for the request's stop (and line)
HasLive ==
  /\ live_updates # <<>>
  /\ LiveEta(live_updates[Len(live_updates)].payload, EtaReq.stop_id, EtaReq.line_id) # None

WalkTime == IF "walk_bike_seconds" \in DOMAIN Eta.details
            THEN Eta.details["walk_bike_seconds"] ELSE 0

OnFoot == EtaReq.mode \in {"walking", "biking"}

C8_FusionIsRounded ==
  (EtaOk /\ HasCrowd /\ HasLive) =>
    Eta.combined.eta =
      (4 * Eta.details["crowd_eta"] + 6 * Eta.details["live_eta"] + 5) \div 10

C10_SourceInFour ==
  EtaOk => Eta.source \in {"crowd", "live_feed", "crowd+live", "schedule"}

\* C10 (amended): every successful answer of get_eta has source in
\* {crowd, live_feed, crowd+live, schedule, estimate}, and estimate exactly
\* when the mode is walking or biking, there is neither crowd nor live data,
\* and the walking or biking time from the origin is not 0.
C10_SourceInFive ==
  EtaOk =>
    /\ Eta.source \in {"crowd", "live_feed", "crowd+live", "schedule", "estimate"}
    /\ Eta.source = "estimate" <=> (OnFoot /\ ~HasCrowd /\ ~HasLive /\ WalkTime # 0)

C10_Witness ==
  EtaOk /\ Eta.source = "estimate" /\ EtaReq.mode = "biking"

\* the stored reports a request for the stop (and the line) of the answer
\* counts when they are no older than two decay periods
Counted ==
  SelectSeq(reports, LAMBDA r :
    /\ r.stop_id = EtaReq.stop_id
    /\ (EtaReq.line_id = None \/ EtaReq.line_id = Some(r.line_id))
    /\ EtaAt - r.timestamp <= 2 * REPORT_DECAY_SECONDS)

\* C11: a report stored for stop S at time t is counted, in crowd_count and
\* in the crowd ETA, by every answer of get_eta for S (with the report's line
\* or with none) served at a time now with now - t <= 2 * REPORT_DECAY_SECONDS,
\* and by no answer served later than that.
C11_ReportWindow ==
  EtaOk =>
    /\ Eta.details["crowd_count"] = Len(Counted)
    /\ ("crowd_eta" \in DOMAIN Eta.details) <=> (Counted # <<>>)
    /\ Counted # <<>> =>
         Eta.details["crowd_eta"] =
           Val(weighted_avg_reports([i \in 1..Len(Counted) |->
                 <<Counted[i].arrival_seconds, EtaAt - Counted[i].timestamp>>]))

C11_Witness ==
  /\ EtaOk /\ Len(reports) = 2
  /\ reports[1].stop_id = EtaReq.stop_id /\ reports[2].stop_id = EtaReq.stop_id
  /\ EtaReq.line_id = None
  /\ EtaAt - reports[1].timestamp = 3 * REPORT_DECAY_SECONDS
  /\ EtaAt - reports[2].timestamp = 2 * REPORT_DECAY_SECONDS
  /\ Eta.details["crowd_count"] = 1

\* C12: get_eta for a stop id that is not in the stops table answers 404 and
\* leaves the three tables as they were; stop_routes for a stop id that is
\* not in STOPS answers 404 and leaves the state of nav.py as it was.
C12_UnknownStopNotFound ==
  [][/\ (eta_out = None /\ eta_out' # None /\ Val(eta_out').req.stop_id \notin DOMAIN stops)
          => /\ Val(eta_out').out.status = 404
             /\ UNCHANGED <<stops, reports, live_updates>>
     /\ (response = None /\ response' # None /\ Val(response').stop_id \notin DOMAIN STOPS)
          => /\ Val(response').answer.status = 404
             /\ UNCHANGED <<TRIP_DELAY, TRIP_STOP_DELAY, DANGER_MAP, SAFETY_ZONES>>]_vars

C12_Witness ==
  /\ eta_out # None /\ Val(eta_out).out.status = 404
  /\ reports # <<>> /\ live_updates # <<>>
  /\ response # None /\ Val(response).stop_id = "Z" /\ Val(response).answer.status = 404
  /\ TRIP_DELAY # EmptyDict

\* C13: the eta_seconds of every answer of get_eta is at least 0, whatever the
\* reports and the live arrivals are; an answer whose combined estimate plus
\* access time is negative has eta_seconds 0.
C13_EtaNonNegative ==
  EtaOk =>
    /\ Eta.eta_seconds >= 0
    /\ (/\ EtaReq.mode \notin {"walking", "biking"}
        /\ Eta.combined.eta + Get(Eta.details, "walk_bike_seconds", 0) < 0)
         => Eta.eta_seconds = 0

C13_Witness ==
  /\ EtaOk
  /\ EtaReq.mode \notin {"walking", "biking"}
  /\ "crowd_eta" \in DOMAIN Eta.details /\ Eta.details["crowd_eta"] < 0
  /\ "live_eta" \in DOMAIN Eta.details /\ Eta.details["live_eta"] < 0
  /\ Eta.combined.eta < 0
  /\ Eta.eta_seconds = 0

\* C14: when all the reports that weighted_avg_reports is given have the same
\* arrival_seconds A, the crowd estimate is exactly A, whatever their ages;
\* when it is given none, there is no crowd estimate.
C14_SameArrivalIsKept ==
  EtaOk =>
    /\ Counted = <<>> => "crowd_eta" \notin DOMAIN Eta.details
    /\ (/\ Counted # <<>>
        /\ \A i \in 1..Len(Counted) : Counted[i].arrival_seconds = Counted[1].arrival_seconds)
         => Eta.details["crowd_eta"] = Counted[1].arrival_seconds

\* C15: every TRANSIT leg of every returned itinerary was built from two
\* rows of its trip, one at the boarding stop and one at the alighting stop,
\* and the stop_sequence of the first is strictly smaller than that of the
\* second; so also on a trip that visits a stop twice.
C15_BoardBeforeAlight ==
  response # None =>
    \A i \in 1..Len(Itineraries) : \A k \in 1..Len(Itineraries[i].legs) :
      Itineraries[i].legs[k].mode = "TRANSIT" =>
        \E o_row, d_row \in Range(STOP_TIMES_BY_TRIP(Itineraries[i].legs[k].trip.trip_id)) :
          /\ o_row.stop_id = Itineraries[i].legs[k].trip.from_stop
          /\ d_row.stop_id = Itineraries[i].legs[k].trip.to_stop
          /\ o_row.seq = Itineraries[i].legs[k].trip.o_seq
          /\ d_row.seq = Itineraries[i].legs[k].trip.d_seq
          /\ o_row.seq < d_row.seq

\* a returned leg on the loop trip L1, which calls at stop C twice
C15_Witness ==
  /\ response # None
  /\ \E i \in 1..Len(Itineraries) : \E k \in 1..Len(Itineraries[i].legs) :
       /\ Itineraries[i].legs[k].mode = "TRANSIT"
       /\ Itineraries[i].legs[k].trip.trip_id = "L1"
       /\ Itineraries[i].legs[k].trip.from_stop = "C"
       /\ Itineraries[i].legs[k].trip.o_seq = 1

\* the (route name, departure time, arrival time) of a direct itinerary
RideTriple(it) == <<it.legs[2].route, it.depart_time, it.arrive_time>>

IsDirect(it) == it.transfers = 0 /\ Len(it.legs) = 3

\* C16: no two direct (transfers = 0) itineraries of one response have the
\* same route name, departure time and arrival time.
C16_DirectNoRepeats ==
  response # None =>
    \A i, j \in 1..Len(Itineraries) :
      (i < j /\ IsDirect(Itineraries[i]) /\ IsDirect(Itineraries[j]))
        => RideTriple(Itineraries[i]) # RideTriple(Itineraries[j])

\* two direct itineraries on one route in one response
C16_Witness ==
  /\ response # None
  /\ \E i, j \in 1..Len(Itineraries) :
       /\ i < j /\ IsDirect(Itineraries[i]) /\ IsDirect(Itineraries[j])
       /\ Itineraries[i].legs[2].route = Itineraries[j].legs[2].route
       /\ Itineraries[i].depart_time = Itineraries[j].depart_time
       /\ Itineraries[i].arrive_time # Itineraries[j].arrive_time

\* what the direct search gives for the query of the response, over the delay
\* maps the request read
DirectFound ==
  plan_direct(Val(response).q.from_pos, Val(response).q.to_pos, DepartAfter(Val(response).q),
              Val(response).q.max_walk_m, Val(response).q.use_realtime /\ url,
              Val(response).read.td, Val(response).read.tsd)

\* what the one-transfer search gives, or would give, for that query
TransferFound ==
  plan_one_transfer(Val(response).q.from_pos, Val(response).q.to_pos,
                    DepartAfter(Val(response).q), Val(response).q.max_walk_m,
                    Val(response).q.use_realtime /\ url,
                    Val(response).read.td, Val(response).read.tsd)

\* C17: the one-transfer search runs only when max_transfers >= 1 and the
\* direct search returned fewer than 3 itineraries: with max_transfers = 0, or
\* with 3 or more direct itineraries, every returned itinerary has
\* transfers = 0.
C17_TransfersOnlyWhenSparse ==
  response # None =>
    ((Val(response).q.max_transfers = 0 \/ Len(DirectFound) >= 3)
      => \A i \in 1..Len(Itineraries) : Itineraries[i].transfers = 0)

\* transfers allowed, three direct itineraries, and a one-transfer itinerary
\* that the search would have found
C17_Witness ==
  /\ response # None
  /\ Val(response).q.max_transfers >= 1
  /\ Len(DirectFound) >= 3
  /\ TransferFound # <<>>
  /\ Len(Itineraries) >= 3

Modes(it) == [k \in 1..Len(it.legs) |-> it.legs[k].mode]

\* C18: every returned itinerary is direct (transfers = 0, legs WALK, TRANSIT,
\* WALK), or has one transfer (transfers = 1, the four legs WALK, TRANSIT,
\* TRANSIT, WALK, and notes "Transfer at" with the name of the stop where the
\* first ride ends and the second begins), or is the walk-only fallback (one
\* WALK leg).
C18_LegShapes ==
  response # None =>
    \A i \in 1..Len(Itineraries) :
      \/ /\ Itineraries[i].transfers = 0
         /\ Modes(Itineraries[i]) = <<"WALK", "TRANSIT", "WALK">>
      \/ /\ Itineraries[i].transfers = 1
         /\ Modes(Itineraries[i]) = <<"WALK", "TRANSIT", "TRANSIT", "WALK">>
         /\ Itineraries[i].legs[2].trip.to_stop = Itineraries[i].legs[3].trip.from_stop
         /\ Itineraries[i].notes
              = <<"Transfer at", STOPS[Itineraries[i].legs[2].trip.to_stop].name>>
      \/ /\ Itineraries[i].transfers = 0
         /\ Modes(Itineraries[i]) = <<"WALK">>
         /\ Len(Itineraries) = 1

\* a response with a direct itinerary and a one-transfer itinerary at Stop X
C18_Witness ==
  /\ response # None
  /\ \E i, j \in 1..Len(Itineraries) :
       /\ Itineraries[i].transfers = 0 /\ Len(Itineraries[i].legs) = 3
       /\ Itineraries[j].transfers = 1 /\ Len(Itineraries[j].legs) = 4
       /\ Itineraries[j].notes = <<"Transfer at", "Stop X">>

\* a response that is the walk-only fallback
C18_WalkOnlyReached ==
  /\ response # None
  /\ Len(Itineraries) = 1 /\ Modes(Itineraries[1]) = <<"WALK">>

\* what the two searches give for the query of the response
Found == PlanSearch(Val(response).q, url, Val(response).read.td, Val(response).read.tsd)

\* a threshold is in force: given, or defaulted because safety is strict
InForce ==
  Val(response).q.reject_walk_below # None \/ Val(response).q.safety = "strict"

\* the threshold in force, in thousandths (0.40 when defaulted)
Threshold ==
  IF Val(response).q.reject_walk_below # None
  THEN Val(Val(response).q.reject_walk_below) ELSE 400

\* C19: when a rejection threshold is in force, every WALK leg of every
\* returned itinerary has a safety_score at or above it, a 200 response has
\* an itinerary, and when the searches found itineraries and none is
\* returned the response is a 404 whose detail names the threshold (as does
\* the 404 of a rejected walk-only fallback).
C19_RejectBelowThreshold ==
  (response # None /\ InForce) =>
    /\ \A i \in 1..Len(Itineraries) : \A k \in 1..Len(Itineraries[i].legs) :
         Itineraries[i].legs[k].mode = "WALK" =>
           /\ Itineraries[i].legs[k].safety_score # None
           /\ Val(Itineraries[i].legs[k].safety_score) >= Threshold
    /\ Val(response).status = 200 => Itineraries # <<>>
    /\ (Val(response).status = 404 /\ Found # <<>>)
         => /\ Len(Val(response).detail) = 2
            /\ Val(response).detail[2] = Threshold
    /\ (Val(response).status = 404 /\ Len(Val(response).detail) = 2)
         => Val(response).detail[2] = Threshold

\* strict safety with no threshold given: some of the itineraries found are
\* returned and some are dropped
C19_Witness ==
  /\ response # None
  /\ Val(response).q.safety = "strict" /\ Val(response).q.reject_walk_below = None
  /\ Val(response).status = 200
  /\ Len(Found) <= 5 /\ Len(Itineraries) < Len(Found)

\* strict safety with no threshold given: all the itineraries found are dropped
C19_AllRejected ==
  /\ response # None
  /\ Val(response).q.safety = "strict" /\ Val(response).q.reject_walk_below = None
  /\ Val(response).status = 404 /\ Found # <<>>

\* C20: the returned list is in non-decreasing order of duration_sec, whatever
\* the safety mode, also when it holds direct and one-transfer itineraries
\* and when walk enhancement changed the durations of legs.
C20_SortedByDuration ==
  response # None =>
    \A i, j \in 1..Len(Itineraries) :
      i < j => Itineraries[i].duration_sec <= Itineraries[j].duration_sec

\* no itinerary of the response rides a trip
NoTransitSurvives ==
  \A i \in 1..Len(Itineraries) : \A k \in 1..Len(Itineraries[i].legs) :
    Itineraries[i].legs[k].mode # "TRANSIT"

WalkOnlyAllowed ==
  /\ Val(response).q.allow_walk_only
  /\ haversine_m(Val(response).q.from_pos, Val(response).q.to_pos)
       <= Val(response).q.walk_only_max_m

\* C21: when no transit itinerary survives (none was found, or the safety
\* filter dropped them all), allow_walk_only holds and the straight-line
\* distance is at most walk_only_max_m, the response is one itinerary of one
\* WALK leg from the origin to the destination, unless that leg itself is
\* below the rejection threshold.
C21_WalkOnlyFallback ==
  (response # None /\ WalkOnlyAllowed /\ NoTransitSurvives) =>
    \/ /\ Val(response).status = 200
       /\ Len(Itineraries) = 1
       /\ Modes(Itineraries[1]) = <<"WALK">>
       /\ Itineraries[1].legs[1].from_pos = Val(response).q.from_pos
       /\ Itineraries[1].legs[1].to_pos = Val(response).q.to_pos
    \/ /\ Val(response).status = 404
       /\ Val(response).detail[1] = "Walk-only option rejected by safety filter"

\* The unbiased duration of a returned WALK leg: that of the provider's
\* primary route when the leg follows it (the only route with a summary and
\* a duration), else the straight-line walk.
BaseDuration(leg) ==
  IF leg.walk_summary # None
  THEN WalkSeconds(haversine_m(leg.from_pos, leg.to_pos) + 40) + 15
  ELSE Max(IF Len(Itineraries[1].legs) = 1 THEN 1 ELSE 0,
           WalkSeconds(haversine_m(leg.from_pos, leg.to_pos)))

\* round(base * (1 + (1 - score) * k)), score in thousandths and k in tenths
RoundedBias(base, score, tenths) ==
  (2 * base * (10000 + (1000 - score) * tenths) + 10000) \div 20000

\* C22: with safety prefer or strict, every WALK leg of every returned
\* itinerary, the leg of the walk-only fallback included, has duration_sec =
\* round(base * (1 + (1 - safety_score) * k)), k = 0.3 for prefer and 0.6 for
\* strict, the bias applied once to the unbiased duration.
C22_WalkBias ==
  (response # None /\ Val(response).q.safety \in {"prefer", "strict"}) =>
    \A i \in 1..Len(Itineraries) : \A k \in 1..Len(Itineraries[i].legs) :
      Itineraries[i].legs[k].mode = "WALK" =>
        /\ Itineraries[i].legs[k].safety_score # None
        /\ Itineraries[i].legs[k].duration_sec
             = RoundedBias(BaseDuration(Itineraries[i].legs[k]),
                           Val(Itineraries[i].legs[k].safety_score),
                           IF Val(response).q.safety = "prefer" THEN 3 ELSE 6)

\* the same for the legs of the itineraries that ride a trip, with the value
\* cut to an integer as int() does
C22_TransitWalksTruncated ==
  (response # None /\ Val(response).q.safety \in {"prefer", "strict"}) =>
    \A i \in 1..Len(Itineraries) : \A k \in 1..Len(Itineraries[i].legs) :
      (Itineraries[i].legs[k].mode = "WALK" /\ Len(Itineraries[i].legs) > 1) =>
        Itineraries[i].legs[k].duration_sec
          = (BaseDuration(Itineraries[i].legs[k])
              * (10000 + (1000 - Val(Itineraries[i].legs[k].safety_score))
                           * (IF Val(response).q.safety = "prefer" THEN 3 ELSE 6))) \div 10000

\* the straight-line walk at 5 km/h between the ends of a leg, in seconds
StraightWalk(leg) == (haversine_m(leg.from_pos, leg.to_pos) * 3600) \div 5000

\* C23: with the walk directions provider failing, plan still answers: every
\* WALK leg is a straight-line walk at 5 km/h (with the safety bias on the
\* legs of itineraries that ride a trip), carries no provider geometry, steps
\* or alternatives, and has a safety score; an itinerary found and not
\* rejected is returned, and the walk-only fallback is returned when allowed.
C23_ProviderFailureDegrades ==
  (response # None /\ Val(response).q.provider = "down") =>
    /\ \A i \in 1..Len(Itineraries) : \A k \in 1..Len(Itineraries[i].legs) :
         Itineraries[i].legs[k].mode = "WALK" =>
           /\ Itineraries[i].legs[k].geometry = None
           /\ Itineraries[i].legs[k].steps = None
           /\ Itineraries[i].legs[k].alt_options = None
           /\ Itineraries[i].legs[k].safety_score # None
           /\ Itineraries[i].legs[k].duration_sec =
                IF Len(Itineraries[i].legs) > 1 /\ Val(response).q.safety \in {"prefer", "strict"}
                THEN (StraightWalk(Itineraries[i].legs[k])
                       * (10000 + (1000 - Val(Itineraries[i].legs[k].safety_score))
                                    * (IF Val(response).q.safety = "prefer" THEN 3 ELSE 6)))
                     \div 10000
                ELSE StraightWalk(Itineraries[i].legs[k])
    /\ (~InForce /\ Found # <<>>) => Val(response).status = 200 /\ ~NoTransitSurvives
    /\ (~InForce /\ Found = <<>> /\ WalkOnlyAllowed)
         => /\ Val(response).status = 200
            /\ Modes(Itineraries[1]) = <<"WALK">>

\* enhancement asked for, the provider down, and an itinerary returned
C23_Witness ==
  /\ response # None
  /\ Val(response).q.provider = "down" /\ Val(response).q.enhance_walk
  /\ Val(response).status = 200
  /\ Len(Itineraries[1].legs) = 3
  /\ Itineraries[1].legs[1].safety_score # None

\* the provider down and the walk-only fallback returned
C23_WalkOnlyDegraded ==
  /\ response # None
  /\ Val(response).q.provider = "down" /\ Val(response).q.enhance_walk
  /\ Val(response).status = 200
  /\ Modes(Itineraries[1]) = <<"WALK">>

\* C24: a safety file that was missing at the latest load leaves the overlay
\* with the empty configuration for that file: no zones; no road entries, no
\* type entries and the default danger.
C24_MissingFileIsEmpty ==
  /\ loaded.zones = "missing" => SAFETY_ZONES = <<>>
  /\ loaded.danger = "missing" => DANGER_MAP = DangerDefaults

\* the versions the danger map and the zones can have
DangerVersions ==
  {DangerDefaults} \cup {_load_danger_map(DangerDefaults, f) : f \in DOMAIN DangerFiles}
ZoneVersions == {<<>>} \cup {_load_safety_zones(f) : f \in DOMAIN ZoneFiles}

\* C25: the safety score of an annotated WALK leg is the score that one
\* version of the danger map and one version of the zones give it, whatever
\* reloads ran while it was annotated.
C25_OneVersionPerLeg ==
  ann.pc = "done" =>
    \E DM \in DangerVersions, ZN \in ZoneVersions :
      Val(ann.leg).safety_score = Annotate(Val(ann.input), DM, ZN).safety_score

\* the answer just returned is one of list_stops
IsStopList(o) == o # None /\ "stops" \in DOMAIN Val(o).out

\* C26: a call of create_stop for id i, whether it stores the stop or fails
\* because the id is there already, leaves a stop with id i in the table; no
\* operation removes a stop; and every list_stops response has a stop for
\* every id in the table.  So every list_stops after a create_stop for i
\* contains i.
C26_CreatedStopsAreListed ==
  [][/\ \A s \in StopInputs : create_stop(s) => s.id \in DOMAIN stops'
     /\ DOMAIN stops \subseteq DOMAIN stops'
     /\ (eta_out = None /\ IsStopList(eta_out'))
          => {r.id : r \in Val(eta_out').out.stops} = DOMAIN stops']_vars

\* a list_stops response after create_stop stored stop 2 (stop 1 was there
\* from the start)
C26_Witness ==
  /\ IsStopList(eta_out)
  /\ {r.id : r \in Val(eta_out).out.stops} = {1, 2}
  /\ reports # <<>>

MapDelay(tid, stop) ==
  IF <<tid, stop>> \in DOMAIN Val(response).read.tsd THEN Val(response).read.tsd[<<tid, stop>>]
  ELSE IF tid \in DOMAIN Val(response).read.td THEN Val(response).read.td[tid]
  ELSE 0

\* realtime is enabled for the request of the response
RealtimeOn == Val(response).q.use_realtime /\ url

ExpectedDelay(tid, stop) == IF RealtimeOn THEN MapDelay(tid, stop) ELSE 0

\* C27: the departure and the arrival of every ride are the scheduled times
\* at the two stops plus the stop-level delay when present, else the
\* trip-level delay when present, else 0; and plus 0 when realtime is
\* disabled (use_realtime false or no URL), whatever the maps hold.
C27_DelayPrecedence ==
  response # None =>
    \A i \in 1..Len(Itineraries) : \A k \in 1..Len(Itineraries[i].legs) :
      Itineraries[i].legs[k].mode = "TRANSIT" =>
        /\ Itineraries[i].legs[k].trip.dep =
             ScheduledRow(Itineraries[i].legs[k], Itineraries[i].legs[k].trip.from_stop).dep_sec
               + ExpectedDelay(Itineraries[i].legs[k].trip.trip_id,
                               Itineraries[i].legs[k].trip.from_stop)
        /\ Itineraries[i].legs[k].trip.arr =
             ScheduledRow(Itineraries[i].legs[k], Itineraries[i].legs[k].trip.to_stop).arr_sec
               + ExpectedDelay(Itineraries[i].legs[k].trip.trip_id,
                               Itineraries[i].legs[k].trip.to_stop)

\* a direct ride whose stop has a stop-level delay unlike the trip-level
\* delay of its trip, with realtime enabled
C27_Witness ==
  /\ response # None /\ RealtimeOn
  /\ \E i \in 1..Len(Itineraries) :
       /\ Itineraries[i].transfers = 0 /\ Len(Itineraries[i].legs) = 3
       /\ \E st \in {Itineraries[i].legs[2].trip.from_stop, Itineraries[i].legs[2].trip.to_stop} :
            /\ <<Itineraries[i].legs[2].trip.trip_id, st>> \in DOMAIN Val(response).read.tsd
            /\ Itineraries[i].legs[2].trip.trip_id \in DOMAIN Val(response).read.td
            /\ Val(response).read.tsd[<<Itineraries[i].legs[2].trip.trip_id, st>>]
                 # Val(response).read.td[Itineraries[i].legs[2].trip.trip_id]

\* a ride of a trip the maps delay, in a request with realtime disabled
C27_WitnessDisabled ==
  /\ response # None /\ ~RealtimeOn
  /\ \E i \in 1..Len(Itineraries) : \E k \in 1..Len(Itineraries[i].legs) :
       /\ Itineraries[i].legs[k].mode = "TRANSIT"
       /\ MapDelay(Itineraries[i].legs[k].trip.trip_id, Itineraries[i].legs[k].trip.from_stop) # 0

\* the seconds of the walk from the origin to the boarding stop as
\* plan_direct computed them (line 348)
Walk1Duration(it) ==
  Max(0, WalkSeconds(haversine_m(Val(response).q.from_pos, it.legs[1].to_pos)))

\* the second at which a direct itinerary leaves the origin (line 351)
LeaveOrigin(it) ==
  Max(DepartAfter(Val(response).q), it.legs[2].trip.dep - Walk1Duration(it))

\* C28: every direct itinerary can be caught: leaving the origin at its
\* departure time and walking the first leg reaches the boarding stop no
\* later than the adjusted departure of the ride.
C28_DirectIsCatchable ==
  response # None =>
    \A i \in 1..Len(Itineraries) :
      (Itineraries[i].transfers = 0 /\ Len(Itineraries[i].legs) = 3) =>
        LeaveOrigin(Itineraries[i]) + Walk1Duration(Itineraries[i])
          <= Itineraries[i].legs[2].trip.dep

\* a ride that left the boarding stop before the requested departure is
\* returned
C28_DepartedBeforeRequest ==
  response # None =>
    \A i \in 1..Len(Itineraries) :
      (Itineraries[i].transfers = 0 /\ Len(Itineraries[i].legs) = 3) =>
        Itineraries[i].legs[2].trip.dep >= DepartAfter(Val(response).q)

\* the second the caller asked to leave at: the supplied depart_time_s when
\* depart_now is false and one is supplied, else the wall clock
RequestedDeparture(q) ==
  IF ~q.depart_now /\ q.depart_time_s # None THEN Val(q.depart_time_s) ELSE q.now

\* C30: when depart_now is false and depart_time_s is supplied, the supplied
\* value is the depart_after of the plan, 0 (midnight) included: a walk-only
\* itinerary departs at it, and a direct itinerary departs at the later of
\* it and the ride's departure less the first walk.
C30_SuppliedDepartureIsUsed ==
  response # None =>
    \A i \in 1..Len(Itineraries) :
      /\ Modes(Itineraries[i]) = <<"WALK">> =>
           Itineraries[i].depart_time = s2t(RequestedDeparture(Val(response).q))
      /\ (Itineraries[i].transfers = 0 /\ Len(Itineraries[i].legs) = 3) =>
           Itineraries[i].depart_time =
             s2t(Max(RequestedDeparture(Val(response).q),
                     Itineraries[i].legs[2].trip.dep - Walk1Duration(Itineraries[i])))

\* the same for the supplied values other than 0
C30_NonZeroDepartureIsUsed ==
  (response # None /\ Val(response).q.depart_time_s # Some(0)) =>
    \A i \in 1..Len(Itineraries) :
      /\ Modes(Itineraries[i]) = <<"WALK">> =>
           Itineraries[i].depart_time = s2t(RequestedDeparture(Val(response).q))
      /\ (Itineraries[i].transfers = 0 /\ Len(Itineraries[i].legs) = 3) =>
           Itineraries[i].depart_time =
             s2t(Max(RequestedDeparture(Val(response).q),
                     Itineraries[i].legs[2].trip.dep - Walk1Duration(Itineraries[i])))

=============================================================================
